---- MODULE Spec2Model ----
(***************************************************************************)
(* A model of rust-redis-imitate: the transactional in-memory storage      *)
(* engine (src/src/storage/memory.rs) with its TTL cache                   *)
(* (src/src/cache/avlcache.rs), and the Raft election core                 *)
(* (src/src/cluster/state.rs, consensus.rs, node.rs).                      *)
(*                                                                         *)
(* Strings are sequences of Unicode code points (<<75>> is "K").  An i64   *)
(* is a record [neg, mag] whose magnitude is a sequence of decimal digits  *)
(* without leading zeros, so that the full 64-bit range is represented.    *)
(***************************************************************************)
EXTENDS Integers, Sequences, FiniteSets, Bags, TLC

VARIABLES
    strings,        \* MemoryStorage.strings: normalized key -> value
    lists,          \* MemoryStorage.lists: normalized key -> deque of values
    stack,          \* MemoryStorage.transaction_stack: sequence of layers
    cache,          \* MemoryStorage.cache: the AVL tree and its size field
    now,            \* the monotonic clock read by Instant::now(), in seconds
    profile,        \* build profile, fixed by the first overflow: "debug"
                    \* (overflow panics), "release" (wraps) or "any"
    last,           \* the last storage call: its name, arguments and result
    nops,           \* number of data calls made so far
    begun,          \* history: the engine state at each open start_transaction
    state,          \* RaftConsensus.state of every node: its RaftState
    log,            \* MemLogStore.logs of every node: its entries
    committed_index, \* MemLogStore.committed_index of every node
    next_index,     \* RaftConsensus.next_index of every node: peer -> index
    match_index,    \* RaftConsensus.match_index of every node: peer -> index
    timer,          \* where the election timer task of every node stands
    msgs,           \* the messages handed to the transport and not yet handled
    elections,      \* number of elections begun so far
    delivered,      \* number of messages the network has handed to the node
    conn,           \* the Connection of every client and where its worker stands
    storage_lock,   \* the worker that holds the Mutex of the storage, if any
    owner,          \* history: the client whose MULTI pushed each layer of stack
    locks,          \* the task that holds each Mutex of RaftConsensus, if any
    task,           \* the tasks of the leader: where each stands, and its locals
    current_snapshot, \* MemLogStore.current_snapshot of every node
    snapshot_file,  \* what snapshot.dat holds in the snapshot_dir of every node
    election_elapsed, \* ms since RaftState.last_election_time of the node
    election_timeout, \* RaftState.election_timeout of the node, in ms
    leader_gap,     \* ms since the node last handled a message of the leader
    applied_index,  \* RaftNode.applied_index of the node
    applied,        \* history: the entries given to state_machine.apply, in
                    \* the order of the calls, and who called
    last_snapshot_index \* RaftNode.last_snapshot_index of the node

storageVars == <<strings, lists, stack, cache, now, profile, last, nops, begun>>

raftVars ==
    <<state, log, committed_index, next_index, match_index, timer, msgs,
      elections, delivered>>

connVars == <<conn, storage_lock, owner>>

taskVars == <<locks, task>>

snapVars == <<current_snapshot, snapshot_file>>

clockVars == <<election_elapsed, election_timeout, leader_gap>>

applyVars == <<applied_index, applied, last_snapshot_index>>

nodeVars == <<clockVars, applyVars>>

(***************************************************************************)
(* Bounds of the model.                                                    *)
(***************************************************************************)
MaxOps == 2
MaxDepth == 2
MaxCounter == 2
MaxNow == 300
MaxElections == 2
MaxLog == 2
MaxDelivered == 2
MaxInFlight == 1

(***************************************************************************)
(* Program constants.                                                      *)
(***************************************************************************)
CacheCapacity == 1000
CacheTtl == 300

\* RaftConfig::default, in ms
ElectionTimeoutMin == 150
ElectionTimeoutMax == 300
HeartbeatInterval == 50

\* the sleep of the loop of run_election_timer, in ms
ElectionTimerSleep == 100

(***************************************************************************)
(* Strings.                                                                *)
(***************************************************************************)
NoValue == [none |-> TRUE]

Some(v) == [some |-> v]

\* char::to_lowercase on the code points the model uses: ASCII A-Z and the
\* Latin-1 capitals (U+00C0..U+00DE except the multiplication sign U+00D7).
LowerChar(c) ==
    IF c \in 65..90 THEN c + 32
    ELSE IF c \in 192..222 /\ c # 215 THEN c + 32
    ELSE c

\* a storage boundary that keeps the case of the key
KeepCase(s) == s

ToLowercase(s) == [i \in 1..Len(s) |-> LowerChar(s[i])]

\* Ord for String: lexicographic on code points.
RECURSIVE StrLess(_, _)
StrLess(a, b) ==
    IF b = <<>> THEN FALSE
    ELSE IF a = <<>> THEN TRUE
    ELSE IF a[1] # b[1] THEN a[1] < b[1]
    ELSE StrLess(Tail(a), Tail(b))

(***************************************************************************)
(* i64 arithmetic on decimal digit sequences.                              *)
(***************************************************************************)
I64MaxMag == <<9,2,2,3,3,7,2,0,3,6,8,5,4,7,7,5,8,0,7>>
I64MinMag == <<9,2,2,3,3,7,2,0,3,6,8,5,4,7,7,5,8,0,8>>

I64(neg, mag) == [neg |-> neg, mag |-> mag]
I64Zero == I64(FALSE, <<0>>)
I64Max == I64(FALSE, I64MaxMag)
I64Min == I64(TRUE, I64MinMag)

RECURSIVE StripZeros(_)
StripZeros(d) ==
    IF Len(d) > 1 /\ d[1] = 0 THEN StripZeros(Tail(d)) ELSE d

\* a <= b for magnitudes without leading zeros
RECURSIVE MagLeqSameLen(_, _)
MagLeqSameLen(a, b) ==
    IF a = <<>> THEN TRUE
    ELSE IF a[1] # b[1] THEN a[1] < b[1]
    ELSE MagLeqSameLen(Tail(a), Tail(b))

MagLeq(a, b) ==
    IF Len(a) # Len(b) THEN Len(a) < Len(b) ELSE MagLeqSameLen(a, b)

\* magnitude + 1
RECURSIVE MagInc(_)
MagInc(d) ==
    IF d = <<>> THEN <<1>>
    ELSE LET n == Len(d) IN
         IF d[n] < 9 THEN [d EXCEPT ![n] = d[n] + 1]
         ELSE Append(MagInc(SubSeq(d, 1, n - 1)), 0)

\* magnitude - 1, for a magnitude >= 1
RECURSIVE MagDecRaw(_)
MagDecRaw(d) ==
    LET n == Len(d) IN
    IF d[n] > 0 THEN [d EXCEPT ![n] = d[n] - 1]
    ELSE Append(MagDecRaw(SubSeq(d, 1, n - 1)), 9)

MagDec(d) == StripZeros(MagDecRaw(d))

\* the mathematical successor and predecessor of an integer
IntSucc(n) ==
    IF n.neg THEN (IF n.mag = <<1>> THEN I64Zero ELSE I64(TRUE, MagDec(n.mag)))
    ELSE I64(FALSE, MagInc(n.mag))

IntPred(n) ==
    IF n.neg THEN I64(TRUE, MagInc(n.mag))
    ELSE IF n.mag = <<0>> THEN I64(TRUE, <<1>>)
    ELSE I64(FALSE, MagDec(n.mag))

\* str::parse::<i64>(): an optional sign, then one or more ASCII digits, the
\* value within the 64-bit range; anything else is an error.
ParseI64(s) ==
    LET signed == Len(s) > 0 /\ s[1] \in {43, 45}
        neg == Len(s) > 0 /\ s[1] = 45
        body == IF signed THEN Tail(s) ELSE s
    IN  IF body = <<>> \/ (\E i \in 1..Len(body) : body[i] \notin 48..57)
        THEN NoValue
        ELSE LET mag == StripZeros([i \in 1..Len(body) |-> body[i] - 48])
             IN  IF neg
                 THEN (IF MagLeq(mag, I64MinMag)
                       THEN Some(I64(mag # <<0>>, mag)) ELSE NoValue)
                 ELSE (IF MagLeq(mag, I64MaxMag)
                       THEN Some(I64(FALSE, mag)) ELSE NoValue)

\* value.parse().unwrap_or(0)
ParseOrZero(s) ==
    LET r == ParseI64(s) IN IF r = NoValue THEN I64Zero ELSE r.some

\* i64::to_string()
I64ToString(n) ==
    LET digits == [i \in 1..Len(n.mag) |-> n.mag[i] + 48]
    IN  IF n.neg THEN <<45>> \o digits ELSE digits

\* |n| <= MaxCounter, to keep counters of the model bounded
RECURSIVE MagOf(_)
MagOf(k) == IF k < 10 THEN <<k>> ELSE Append(MagOf(k \div 10), k % 10)

Small(n) == MagLeq(n.mag, MagOf(MaxCounter))

(***************************************************************************)
(* The TTL cache: an AVL tree of (key, value, timestamp) nodes.            *)
(***************************************************************************)
Nil == [nil |-> TRUE]

Max2(a, b) == IF a >= b THEN a ELSE b

Min2(a, b) == IF a <= b THEN a ELSE b

NodeNew(key, value, t) ==
    [key |-> key, value |-> value, left |-> Nil, right |-> Nil,
     height |-> 1, timestamp |-> t]

\* self.left.as_ref().map_or(0, |n| n.height())
Height(n) == IF n = Nil THEN 0 ELSE n.height

BalanceFactor(n) == Height(n.left) - Height(n.right)

UpdateHeight(n) ==
    [n EXCEPT !.height = 1 + Max2(Height(n.left), Height(n.right))]

RotateLeft(node) ==
    LET new_root == node.right
        lowered == UpdateHeight([node EXCEPT !.right = new_root.left])
    IN  UpdateHeight([new_root EXCEPT !.left = lowered])

RotateRight(node) ==
    LET new_root == node.left
        lowered == UpdateHeight([node EXCEPT !.left = new_root.right])
    IN  UpdateHeight([new_root EXCEPT !.right = lowered])

Balance(node0) ==
    LET node == UpdateHeight(node0)
        balance == BalanceFactor(node)
    IN  IF balance > 1
        THEN RotateRight(IF BalanceFactor(node.left) < 0
                         THEN [node EXCEPT !.left = RotateLeft(node.left)]
                         ELSE node)
        ELSE IF balance < -1
        THEN RotateLeft(IF BalanceFactor(node.right) > 0
                        THEN [node EXCEPT !.right = RotateRight(node.right)]
                        ELSE node)
        ELSE node

\* the tree after the insertion, and whether a node was created (size += 1)
RECURSIVE InsertHelper(_, _, _, _)
InsertHelper(node, key, value, t) ==
    IF node = Nil
    THEN [tree |-> NodeNew(key, value, t), added |-> TRUE]
    ELSE IF key = node.key
    THEN [tree |-> Balance([node EXCEPT !.value = value, !.timestamp = t]),
          added |-> FALSE]
    ELSE IF StrLess(key, node.key)
    THEN LET r == InsertHelper(node.left, key, value, t)
         IN  [tree |-> Balance([node EXCEPT !.left = r.tree]), added |-> r.added]
    ELSE LET r == InsertHelper(node.right, key, value, t)
         IN  [tree |-> Balance([node EXCEPT !.right = r.tree]), added |-> r.added]

RECURSIVE GetNode(_, _)
GetNode(node, key) ==
    IF node = Nil THEN Nil
    ELSE IF key = node.key THEN node
    ELSE IF StrLess(key, node.key) THEN GetNode(node.left, key)
    ELSE GetNode(node.right, key)

ContainsKey(c, key) == GetNode(c.root, key) # Nil

\* the subtree without its leftmost node, and that node
RECURSIVE RemoveMin(_)
RemoveMin(node) ==
    IF node.left = Nil
    THEN [rest |-> node.right, min |-> node]
    ELSE LET r == RemoveMin(node.left)
         IN  [rest |-> [node EXCEPT !.left = r.rest], min |-> r.min]

RECURSIVE RemoveRecursive(_, _)
RemoveRecursive(node, key) ==
    IF node = Nil THEN [tree |-> Nil, removed |-> NoValue]
    ELSE IF key = node.key
    THEN IF node.left = Nil THEN [tree |-> node.right, removed |-> Some(node.value)]
         ELSE IF node.right = Nil THEN [tree |-> node.left, removed |-> Some(node.value)]
         ELSE LET r == RemoveMin(node.right)
              IN  [tree |-> Balance([node EXCEPT !.key = r.min.key,
                                                 !.value = r.min.value,
                                                 !.timestamp = r.min.timestamp,
                                                 !.right = r.rest]),
                   removed |-> Some(node.value)]
    ELSE IF StrLess(key, node.key)
    THEN LET r == RemoveRecursive(node.left, key)
         IN  [tree |-> Balance([node EXCEPT !.left = r.tree]), removed |-> r.removed]
    ELSE LET r == RemoveRecursive(node.right, key)
         IN  [tree |-> Balance([node EXCEPT !.right = r.tree]), removed |-> r.removed]

CacheNew(capacity, ttl) ==
    [root |-> Nil, capacity |-> capacity, size |-> 0, ttl |-> ttl]

CacheRemoveKeepSize(c, key) ==
    [c EXCEPT !.root = RemoveRecursive(c.root, key).tree]

CacheRemove(c, key) ==
    LET r == RemoveRecursive(c.root, key)
    IN  [c EXCEPT !.root = r.tree,
                  !.size = IF r.removed # NoValue THEN c.size - 1 ELSE c.size]

RECURSIVE MaxNode(_)
MaxNode(node) == IF node.right = Nil THEN node ELSE MaxNode(node.right)

RECURSIVE MinNode(_)
MinNode(node) == IF node.left = Nil THEN node ELSE MinNode(node.left)

CachePut(c, key, value, t) ==
    LET contains_key == ContainsKey(c, key)
        evicted == IF c.size = c.capacity /\ ~contains_key /\ c.root # Nil
                   THEN CacheRemove(c, MinNode(c.root).key)
                   ELSE c
        r == InsertHelper(evicted.root, key, value, t)
        size1 == IF r.added THEN evicted.size + 1 ELSE evicted.size
    IN  [evicted EXCEPT !.root = r.tree,
                        !.size = IF ~contains_key THEN Min2(size1, c.capacity)
                                 ELSE size1]

CacheGetUpToTtl(c, key, t) ==
    LET node == GetNode(c.root, key)
    IN  IF node = Nil THEN [cache |-> c, res |-> NoValue]
        ELSE IF t - node.timestamp <= c.ttl
        THEN [cache |-> CachePut(c, key, node.value, t), res |-> Some(node.value)]
        ELSE [cache |-> CacheRemove(c, key), res |-> NoValue]

\* the cache after the lookup, and the value returned
CacheGet(c, key, t) ==
    LET node == GetNode(c.root, key)
    IN  IF node = Nil THEN [cache |-> c, res |-> NoValue]
        ELSE IF t - node.timestamp < c.ttl
        THEN [cache |-> CachePut(c, key, node.value, t), res |-> Some(node.value)]
        ELSE [cache |-> CacheRemove(c, key), res |-> NoValue]

CacheClear(c) == [c EXCEPT !.root = Nil, !.size = 0]

\* the number of nodes of a tree
RECURSIVE TreeSize(_)
TreeSize(node) ==
    IF node = Nil THEN 0 ELSE TreeSize(node.left) + 1 + TreeSize(node.right)

\* the entries held by a tree
RECURSIVE TreeEntries(_)
TreeEntries(node) ==
    IF node = Nil THEN {}
    ELSE TreeEntries(node.left)
         \cup {[key |-> node.key, value |-> node.value, timestamp |-> node.timestamp]}
         \cup TreeEntries(node.right)

\* the keys held by a tree
RECURSIVE TreeKeys(_)
TreeKeys(node) ==
    IF node = Nil THEN {}
    ELSE TreeKeys(node.left) \cup {node.key} \cup TreeKeys(node.right)

(***************************************************************************)
(* The storage engine.                                                     *)
(***************************************************************************)
MapInsert(m, k, v) == [x \in DOMAIN m \cup {k} |-> IF x = k THEN v ELSE m[x]]

MapRemove(m, k) == [x \in DOMAIN m \ {k} |-> m[x]]

\* HashMap::get: Some(value) or None
MapGet(m, k) == IF k \in DOMAIN m THEN Some(m[k]) ELSE NoValue

EmptyMap == <<>>

\* TransactionLayer: each overlay maps a key to Some(value) or to NoValue,
\* the tombstone
EmptyLayer == [strings |-> EmptyMap, lists |-> EmptyMap]

Depth == Len(stack)

Top == stack[Len(stack)]

SetTop(layer) == [stack EXCEPT ![Len(stack)] = layer]

StrOK == <<79, 75>>

StrQueued == <<81, 85, 69, 85, 69, 68>>

StrZero == <<48>>

I64MaxStr == I64ToString(I64Max)

\* usize::to_string()
UsizeToString(n) == I64ToString(I64(FALSE, MagOf(n)))

\* the inputs of the storage calls
RawKeys == {<<75>>, <<106>>}

\* the keys given to get
ReadKeys == {<<107>>, <<106>>}

\* the keys given to the list calls
ListKeys == {<<75>>}

Values == {<<65>>, I64MaxStr}

ListValues == {<<99>>}

Call(op, key, arg, res) == [op |-> op, key |-> key, arg |-> arg, res |-> res]

\* self.transaction_stack.iter().rev()
\*     .find_map(|layer| layer.strings.get(&key).cloned().flatten())
RECURSIVE FindInLayers(_, _, _)
FindInLayers(stk, i, key) ==
    IF i = 0 THEN NoValue
    ELSE IF key \in DOMAIN stk[i].strings /\ stk[i].strings[key] # NoValue
    THEN stk[i].strings[key]
    ELSE FindInLayers(stk, i - 1, key)

\* the uncached part of get: the layers, or else the base table
StoreLookup(key) ==
    LET found == FindInLayers(stack, Len(stack), key)
    IN  IF found # NoValue THEN found ELSE MapGet(strings, key)

\* get: the value returned and the cache it leaves
GetOutcome(rawKey) ==
    LET key == ToLowercase(rawKey)
        hit == CacheGet(cache, key, now)
    IN  IF hit.res # NoValue THEN hit
        ELSE LET result == StoreLookup(key)
             IN  [cache |-> IF result # NoValue
                            THEN CachePut(hit.cache, key, result.some, now)
                            ELSE hit.cache,
                  res |-> result]

GetResult(rawKey) == GetOutcome(rawKey).res

\* llen, which reads and changes nothing
RECURSIVE LLenLayers(_, _, _)
LLenLayers(stk, i, key) ==
    IF i = 0 THEN NoValue
    ELSE IF key \in DOMAIN stk[i].lists /\ stk[i].lists[key] # NoValue
    THEN Some(Len(stk[i].lists[key].some))
    ELSE LLenLayers(stk, i - 1, key)

LLenResult(rawKey) ==
    LET key == ToLowercase(rawKey)
        found == LLenLayers(stack, Len(stack), key)
    IN  IF found # NoValue THEN found.some
        ELSE IF key \in DOMAIN lists THEN Len(lists[key]) ELSE 0

\* get_or_insert_string: the value now stored at the key, after the entry
\* has been created where it was missing
StringSlot(key, default) ==
    IF Depth > 0
    THEN LET entry == IF key \in DOMAIN Top.strings THEN Top.strings[key]
                      ELSE MapGet(strings, key)
         IN  IF entry = NoValue THEN default ELSE entry.some
    ELSE IF key \in DOMAIN strings THEN strings[key] ELSE default

\* get_or_insert_list
ListSlot(key) ==
    IF Depth > 0
    THEN LET entry == IF key \in DOMAIN Top.lists THEN Top.lists[key]
                      ELSE MapGet(lists, key)
         IN  IF entry = NoValue THEN <<>> ELSE entry.some
    ELSE IF key \in DOMAIN lists THEN lists[key] ELSE <<>>

\* a write that bypasses the open transaction
WriteStringToBase(key, value) ==
    /\ strings' = MapInsert(strings, key, value)
    /\ stack' = stack

\* writing through the reference that get_or_insert_string returned
WriteString(key, value) ==
    IF Depth > 0
    THEN /\ stack' = SetTop([Top EXCEPT !.strings = MapInsert(@, key, Some(value))])
         /\ strings' = strings
    ELSE /\ strings' = MapInsert(strings, key, value)
         /\ stack' = stack

WriteList(key, list) ==
    IF Depth > 0
    THEN /\ stack' = SetTop([Top EXCEPT !.lists = MapInsert(@, key, Some(list))])
         /\ lists' = lists
    ELSE /\ lists' = MapInsert(lists, key, list)
         /\ stack' = stack

\* a data call
Step(call) ==
    /\ nops < MaxOps
    /\ nops' = nops + 1
    /\ last' = call
    /\ now' = now
    /\ UNCHANGED raftVars

\* a transaction call
TxStep(call) ==
    /\ last' = call
    /\ UNCHANGED <<now, nops, profile>>
    /\ UNCHANGED raftVars

Panicked == [panic |-> TRUE]

Err == [err |-> TRUE]

\* num += 1 and num -= 1 on an i64: NoValue when the result leaves the range
CheckedAdd1(num) == IF num = I64Max THEN NoValue ELSE Some(IntSucc(num))

CheckedSub1(num) == IF num = I64Min THEN NoValue ELSE Some(IntPred(num))

Set(rawKey, value) ==
    LET key == ToLowercase(rawKey) IN
    /\ WriteString(key, value)
    /\ cache' = CachePut(cache, key, value, now)
    /\ UNCHANGED <<lists, begun, profile>>
    /\ Step(Call("set", rawKey, Some(value), NoValue))

Get(rawKey) ==
    LET outcome == GetOutcome(rawKey) IN
    /\ cache' = outcome.cache
    /\ UNCHANGED <<strings, lists, stack, begun, profile>>
    /\ Step(Call("get", rawKey, NoValue, outcome.res))

\* del without a transaction: the tables it leaves and its result
DelBase(key) ==
    LET in_strings == key \in DOMAIN strings
    IN  [strings |-> MapRemove(strings, key),
         lists |-> IF in_strings THEN lists ELSE MapRemove(lists, key),
         res |-> in_strings \/ key \in DOMAIN lists]

Del(rawKey) ==
    LET key == ToLowercase(rawKey)
        result == IF Depth > 0 THEN TRUE ELSE DelBase(key).res
    IN
    /\ IF Depth > 0
       THEN /\ stack' = SetTop([strings |-> MapInsert(Top.strings, key, NoValue),
                                lists |-> MapInsert(Top.lists, key, NoValue)])
            /\ UNCHANGED <<strings, lists>>
       ELSE /\ strings' = DelBase(key).strings
            /\ lists' = DelBase(key).lists
            /\ stack' = stack
    /\ cache' = IF result THEN CacheRemove(cache, key) ELSE cache
    /\ UNCHANGED <<begun, profile>>
    /\ Step(Call("del", rawKey, NoValue, result))

\* incr and decr: `sum` is the checked result of the addition
Arith(op, rawKey, sum, wrapped) ==
    LET key == ToLowercase(ToLowercase(rawKey))
        value == StringSlot(key, StrZero)
    IN
    /\ IF sum # NoValue
       THEN /\ WriteString(key, I64ToString(sum.some))
            /\ Step(Call(op, rawKey, NoValue, sum.some))
            /\ profile' = profile
       ELSE \/ /\ profile \in {"any", "debug"}
               /\ profile' = "debug"
               /\ WriteString(key, value)
               /\ Step(Call(op, rawKey, NoValue, Panicked))
            \/ /\ profile \in {"any", "release"}
               /\ profile' = "release"
               /\ WriteString(key, I64ToString(wrapped))
               /\ Step(Call(op, rawKey, NoValue, wrapped))
    /\ UNCHANGED <<lists, cache, begun>>

Incr(rawKey) ==
    LET num == ParseOrZero(StringSlot(ToLowercase(rawKey), StrZero)) IN
    /\ num = I64Max \/ Small(IntSucc(num))
    /\ Arith("incr", rawKey, CheckedAdd1(num), I64Min)

Decr(rawKey) ==
    LET num == ParseOrZero(StringSlot(ToLowercase(rawKey), StrZero)) IN
    /\ num = I64Min \/ Small(IntPred(num))
    /\ Arith("decr", rawKey, CheckedSub1(num), I64Max)

PushFront(list, value) == <<value>> \o list

\* a push_back that inserts before the last element
PushBackBeforeLast(list, value) ==
    IF list = <<>> THEN <<value>>
    ELSE Append(Append(SubSeq(list, 1, Len(list) - 1), value), list[Len(list)])

PushBack(list, value) == Append(list, value)

\* pop_front and pop_back: the deque left and the element returned
PopFront(list) ==
    IF list = <<>> THEN [list |-> list, res |-> NoValue]
    ELSE [list |-> Tail(list), res |-> Some(Head(list))]

PopBack(list) ==
    IF list = <<>> THEN [list |-> list, res |-> NoValue]
    ELSE [list |-> SubSeq(list, 1, Len(list) - 1), res |-> Some(list[Len(list)])]

ListCall(op, rawKey, arg, list, res) ==
    /\ WriteList(ToLowercase(ToLowercase(rawKey)), list)
    /\ UNCHANGED <<strings, cache, begun, profile>>
    /\ Step(Call(op, rawKey, arg, res))

LPush(rawKey, value) ==
    LET list == PushFront(ListSlot(ToLowercase(rawKey)), value)
    IN  ListCall("lpush", rawKey, Some(value), list, Len(list))

RPush(rawKey, value) ==
    LET list == PushBack(ListSlot(ToLowercase(rawKey)), value)
    IN  ListCall("rpush", rawKey, Some(value), list, Len(list))

LPop(rawKey) ==
    LET popped == PopFront(ListSlot(ToLowercase(rawKey)))
    IN  ListCall("lpop", rawKey, NoValue, popped.list, popped.res)

RPop(rawKey) ==
    LET popped == PopBack(ListSlot(ToLowercase(rawKey)))
    IN  ListCall("rpop", rawKey, NoValue, popped.list, popped.res)

StartTransaction ==
    /\ Depth < MaxDepth
    /\ stack' = Append(stack, EmptyLayer)
    /\ begun' = Append(begun, [strings |-> strings, lists |-> lists, stack |-> stack])
    /\ UNCHANGED <<strings, lists, cache>>
    /\ TxStep(Call("multi", <<>>, NoValue, NoValue))

\* a fold that inserts the values and forgets the tombstones
MergeValuesOnly(base, overlay) ==
    [k \in DOMAIN base \cup {x \in DOMAIN overlay : overlay[x] # NoValue} |->
        IF k \in DOMAIN overlay /\ overlay[k] # NoValue
        THEN overlay[k].some ELSE base[k]]

\* the base table after the outermost commit folded an overlay into it
MergeIntoBase(base, overlay) ==
    [k \in (DOMAIN base \ {x \in DOMAIN overlay : overlay[x] = NoValue})
           \cup {x \in DOMAIN overlay : overlay[x] # NoValue} |->
        IF k \in DOMAIN overlay THEN overlay[k].some ELSE base[k]]

\* a fold in which the parent's entry wins
MergeParentWins(parent, child) ==
    [k \in DOMAIN parent \cup DOMAIN child |->
        IF k \in DOMAIN parent THEN parent[k] ELSE child[k]]

\* the parent overlay after a nested commit folded the child into it
MergeIntoParent(parent, child) ==
    [k \in DOMAIN parent \cup DOMAIN child |->
        IF k \in DOMAIN child THEN child[k] ELSE parent[k]]

\* the orders in which a HashMap may iterate over the keys S
Orderings(S) ==
    {f \in [1..Cardinality(S) -> S] : \A i, j \in DOMAIN f : i # j => f[i] # f[j]}

\* results in which the lists come before the strings
BaseResultsListsFirst(layer, order) ==
    [i \in 1..Len(order) |->
           IF layer.lists[order[i]] = NoValue THEN StrOK
           ELSE UsizeToString(Len(layer.lists[order[i]].some))]
    \o [i \in 1..Cardinality(DOMAIN layer.strings) |-> StrOK]

\* results of the outermost commit
BaseResults(layer, order) ==
    [i \in 1..Cardinality(DOMAIN layer.strings) |-> StrOK]
    \o [i \in 1..Len(order) |->
           IF layer.lists[order[i]] = NoValue THEN StrOK
           ELSE UsizeToString(Len(layer.lists[order[i]].some))]

NestedResults(layer) ==
    [i \in 1..(Cardinality(DOMAIN layer.strings) + Cardinality(DOMAIN layer.lists))
        |-> StrQueued]

CommitTransaction ==
    IF Depth = 0
    THEN /\ UNCHANGED <<strings, lists, stack, cache, begun, profile>>
         /\ Step(Call("exec", <<>>, NoValue, Err))
    ELSE LET committed_layer == Top
             rest == SubSeq(stack, 1, Depth - 1)
         IN  /\ IF rest = <<>>
                THEN /\ strings' = MergeIntoBase(strings, committed_layer.strings)
                     /\ lists' = MergeIntoBase(lists, committed_layer.lists)
                     /\ stack' = rest
                     /\ \E order \in Orderings(DOMAIN committed_layer.lists) :
                           TxStep(Call("exec", <<>>, NoValue,
                                       Some(BaseResults(committed_layer, order))))
                ELSE /\ stack' = [rest EXCEPT ![Len(rest)] =
                            [strings |-> MergeIntoParent(@.strings, committed_layer.strings),
                             lists |-> MergeIntoParent(@.lists, committed_layer.lists)]]
                     /\ UNCHANGED <<strings, lists>>
                     /\ TxStep(Call("exec", <<>>, NoValue,
                                    Some(NestedResults(committed_layer))))
             /\ cache' = CacheClear(cache)
             /\ begun' = SubSeq(begun, 1, Len(begun) - 1)

RollbackTransaction ==
    IF Depth = 0
    THEN /\ UNCHANGED <<strings, lists, stack, cache, begun, profile>>
         /\ Step(Call("discard", <<>>, NoValue, Err))
    ELSE /\ stack' = SubSeq(stack, 1, Depth - 1)
         /\ cache' = CacheClear(cache)
         /\ begun' = SubSeq(begun, 1, Len(begun) - 1)
         /\ UNCHANGED <<strings, lists>>
         /\ TxStep(Call("discard", <<>>, NoValue, NoValue))

\* load_snapshot on the tokens of each line (split_whitespace): the tables
\* read from lines 1..i of the file
StrSTRING == <<83, 84, 82, 73, 78, 71>>

StrLIST == <<76, 73, 83, 84>>

RECURSIVE LoadLines(_, _)
LoadLines(file, i) ==
    IF i = 0 THEN [strings |-> EmptyMap, lists |-> EmptyMap]
    ELSE LET sofar == LoadLines(file, i - 1)
             parts == file[i]
         IN  IF parts = <<>> THEN sofar
             ELSE IF parts[1] = StrSTRING /\ Len(parts) >= 3
             THEN [sofar EXCEPT !.strings = MapInsert(@, parts[2], parts[3])]
             ELSE IF parts[1] = StrLIST /\ Len(parts) >= 3
             THEN [sofar EXCEPT !.lists =
                      MapInsert(@, parts[2], SubSeq(parts, 4, Len(parts)))]
             ELSE sofar

\* the snapshot files main() may find at startup: what save_snapshot wrote
\* for k = "A", j = "" and the list k = [A, b]
SnapshotFiles ==
    {<< <<StrSTRING, <<107>>, <<65>> >>,
        <<StrSTRING, <<106>> >>,
        <<StrLIST, <<107>>, <<50>>, <<65>>, <<98>> >> >>}

\* main(): load_snapshot right after MemoryStorage::new()
LoadSnapshot(file) ==
    /\ last.op = "new"
    /\ strings' = LoadLines(file, Len(file)).strings
    /\ lists' = LoadLines(file, Len(file)).lists
    /\ last' = Call("load", <<>>, NoValue, NoValue)
    /\ UNCHANGED <<stack, cache, now, profile, nops, begun>>
    /\ UNCHANGED raftVars

\* time passes between two calls
Tick ==
    /\ now + CacheTtl <= MaxNow
    /\ now' = now + CacheTtl
    /\ nops < MaxOps
    /\ nops' = nops + 1
    /\ last' = Call("tick", <<>>, NoValue, NoValue)
    /\ UNCHANGED <<strings, lists, stack, cache, profile, begun>>
    /\ UNCHANGED raftVars


(***************************************************************************)
(* The Raft election core.  A RaftState is a record; the timing fields are *)
(* left out and an election timeout may fire whenever the role allows it.  *)
(***************************************************************************)

\* the nodes of the cluster
Nodes == {"n1", "n2", "n3"}

\* RaftConsensus.cluster of a node: the ids of its peers
Cluster(node_id) == Nodes \ {node_id}

\* RaftState::new
RaftStateNew(node_id) ==
    [node_id |-> node_id,
     current_term |-> 0,
     voted_for |-> NoValue,
     role |-> "Follower",
     votes_received |-> 0,
     last_log_index |-> 0,
     last_log_term |-> 0]

\* an update_term that adopts whatever term it is given
UpdateTermAdopt(st, term) ==
    [st |-> [st EXCEPT !.current_term = term], ok |-> TRUE]

\* update_term: the state it leaves and whether it returned Ok
UpdateTerm(st, term) ==
    IF term < st.current_term THEN [st |-> st, ok |-> FALSE]
    ELSE IF term > st.current_term
    THEN [st |-> [st EXCEPT !.current_term = term,
                            !.voted_for = NoValue,
                            !.role = "Follower"],
          ok |-> TRUE]
    ELSE [st |-> st, ok |-> TRUE]

\* should_begin_election, once the election timeout has elapsed
ShouldBeginElection(st) == st.role # "Leader"

BeginElection(st) ==
    [st EXCEPT !.role = "Candidate",
               !.current_term = @ + 1,
               !.voted_for = Some(st.node_id),
               !.votes_received = 1]

\* a voter that grants whoever asks
CanVoteAnyone(st, candidate_id) == TRUE

\* can_vote in handle_vote_request
CanVote(st, candidate_id) ==
    st.voted_for = NoValue \/ st.voted_for = Some(candidate_id)

\* log_is_current in handle_vote_request
LogIsCurrent(st, last_log_index, last_log_term) ==
    \/ last_log_term > st.last_log_term
    \/ last_log_term = st.last_log_term /\ last_log_index >= st.last_log_index

\* RaftState::handle_vote_request: the state it leaves and its answer
StateHandleVoteRequest(st, candidate_id, term, last_log_index, last_log_term) ==
    IF term < st.current_term THEN [st |-> st, granted |-> FALSE]
    ELSE LET updated == UpdateTerm(st, term).st
         IN  IF /\ CanVote(updated, candidate_id)
                /\ LogIsCurrent(updated, last_log_index, last_log_term)
             THEN [st |-> [updated EXCEPT !.voted_for = Some(candidate_id)],
                   granted |-> TRUE]
             ELSE [st |-> updated, granted |-> FALSE]

ReceiveVote(st, granted) ==
    IF granted /\ st.role = "Candidate"
    THEN [st EXCEPT !.votes_received = @ + 1]
    ELSE st

\* an election that is won with any vote count
CheckElectionWonAlone(st, cluster_size) == st.role = "Candidate"

CheckElectionWon(st, cluster_size) ==
    st.role = "Candidate" /\ st.votes_received > cluster_size \div 2

BecomeLeader(st) ==
    IF st.role = "Candidate" THEN [st EXCEPT !.role = "Leader"] ELSE st

\* LogStore::last_index and LogStore::last_term
LastIndex(node_id) == Len(log[node_id])

LastTerm(node_id) ==
    IF log[node_id] = <<>> THEN 0 ELSE log[node_id][Len(log[node_id])].term

\* RaftMessage
RequestVote(term, candidate_id, last_log_index, last_log_term) ==
    [type |-> "RequestVote", term |-> term, candidate_id |-> candidate_id,
     last_log_index |-> last_log_index, last_log_term |-> last_log_term]

RequestVoteResponse(term, vote_granted) ==
    [type |-> "RequestVoteResponse", term |-> term, vote_granted |-> vote_granted]

Heartbeat(term, leader_id) ==
    [type |-> "Heartbeat", term |-> term, leader_id |-> leader_id]

\* transport.send(to, message): the message is in flight
Envelope(to, message) == [to |-> to, message |-> message]

Send(bag, to, message) == bag (+) SetToBag({Envelope(to, message)})

\* one send per peer of the cluster
SendToCluster(bag, node_id, message) ==
    bag (+) SetToBag({Envelope(peer_id, message) : peer_id \in Cluster(node_id)})

\* the transport hands an envelope to handle_message of its addressee
Receive(bag, envelope) == bag (-) SetToBag({envelope})

\* initialize_leader_state: the tables it leaves
InitialNextIndex(node_id) ==
    [peer_id \in Cluster(node_id) |-> LastIndex(node_id) + 1]

InitialMatchIndex(node_id) == [peer_id \in Cluster(node_id) |-> 0]

\* handle_election_timeout, first lock section: begin_election
ElectionTimeout(node_id) ==
    /\ timer[node_id] = "idle"
    /\ ShouldBeginElection(state[node_id])
    /\ elections < MaxElections
    /\ elections' = elections + 1
    /\ state' = [state EXCEPT ![node_id] = BeginElection(@)]
    /\ timer' = [timer EXCEPT ![node_id] = "begun"]
    /\ UNCHANGED <<log, committed_index, next_index, match_index, msgs, delivered>>
    /\ UNCHANGED storageVars

\* handle_election_timeout, the rest: read the log store, read the term
\* again, send RequestVote to every peer
SendVoteRequests(node_id) ==
    /\ timer[node_id] = "begun"
    /\ msgs' = SendToCluster(msgs, node_id,
                   RequestVote(state[node_id].current_term, node_id,
                               LastIndex(node_id), LastTerm(node_id)))
    /\ timer' = [timer EXCEPT ![node_id] = "idle"]
    /\ UNCHANGED <<state, log, committed_index, next_index, match_index, elections,
                   delivered>>
    /\ UNCHANGED storageVars

\* handle_message on RequestVote: RaftConsensus::handle_vote_request
HandleVoteRequest(envelope) ==
    LET node_id == envelope.to
        request == envelope.message
        outcome == StateHandleVoteRequest(state[node_id], request.candidate_id,
                       request.term, request.last_log_index, request.last_log_term)
    IN
    /\ request.type = "RequestVote"
    /\ state' = [state EXCEPT ![node_id] = outcome.st]
    /\ msgs' = Send(Receive(msgs, envelope), request.candidate_id,
                    RequestVoteResponse(outcome.st.current_term, outcome.granted))
    /\ UNCHANGED <<log, committed_index, next_index, match_index, timer, elections>>
    /\ UNCHANGED storageVars

\* handle_message on RequestVoteResponse: RaftConsensus::handle_vote_response
HandleVoteResponse(envelope) ==
    LET node_id == envelope.to
        response == envelope.message
        st == state[node_id]
        voted == ReceiveVote(st, response.vote_granted)
    IN
    /\ response.type = "RequestVoteResponse"
    /\ IF response.term > st.current_term
       THEN /\ state' = [state EXCEPT ![node_id] = UpdateTerm(st, response.term).st]
            /\ msgs' = Receive(msgs, envelope)
            /\ UNCHANGED <<next_index, match_index>>
       ELSE IF st.role = "Candidate" /\ response.term = st.current_term
       THEN IF CheckElectionWon(voted, Cardinality(Cluster(node_id)) + 1)
            THEN /\ state' = [state EXCEPT ![node_id] = BecomeLeader(voted)]
                 /\ next_index' = [next_index EXCEPT ![node_id] = InitialNextIndex(node_id)]
                 /\ match_index' = [match_index EXCEPT ![node_id] = InitialMatchIndex(node_id)]
                 /\ msgs' = SendToCluster(Receive(msgs, envelope), node_id,
                                Heartbeat(voted.current_term, node_id))
            ELSE /\ state' = [state EXCEPT ![node_id] = voted]
                 /\ msgs' = Receive(msgs, envelope)
                 /\ UNCHANGED <<next_index, match_index>>
       ELSE /\ msgs' = Receive(msgs, envelope)
            /\ UNCHANGED <<state, next_index, match_index>>
    /\ UNCHANGED <<log, committed_index, timer, elections>>
    /\ UNCHANGED storageVars

\* handle_message on Heartbeat
HandleHeartbeat(envelope) ==
    LET node_id == envelope.to
        heartbeat == envelope.message
    IN
    /\ heartbeat.type = "Heartbeat"
    /\ state' = [state EXCEPT ![node_id] = UpdateTerm(@, heartbeat.term).st]
    /\ msgs' = Receive(msgs, envelope)
    /\ UNCHANGED <<log, committed_index, next_index, match_index, timer, elections>>
    /\ UNCHANGED storageVars

(***************************************************************************)
(* Log replication: the log store (MemLogStore) and the handlers of        *)
(* AppendEntries and AppendEntriesResponse.  A log store is a record       *)
(* [logs, committed_index]; a log entry is a record [term, index].         *)
(***************************************************************************)

\* LogEntry::new, without the payload and the timestamp
LogEntry(term, index) == [term |-> term, index |-> index]

\* the log store of a node
LogStoreOf(node_id) ==
    [logs |-> log[node_id], committed_index |-> committed_index[node_id]]

\* MemLogStore::get
LogGet(ls, index) ==
    IF index = 0 \/ index > Len(ls.logs) THEN NoValue ELSE Some(ls.logs[index])

\* MemLogStore::delete_from
DeleteFrom(ls, index) ==
    IF index = 0 \/ index > Len(ls.logs) THEN ls
    ELSE LET logs == SubSeq(ls.logs, 1, index - 1)
         IN  [logs |-> logs,
              committed_index |-> IF ls.committed_index > Len(logs) THEN Len(logs)
                                  ELSE ls.committed_index]

\* MemLogStore::append: the store it leaves and whether it returned Ok
LogAppend(ls, entries) ==
    IF entries = <<>> THEN [ls |-> ls, ok |-> TRUE]
    ELSE LET first_index == entries[1].index
         IN  IF first_index <= Len(ls.logs)
             THEN [ls |-> [DeleteFrom(ls, first_index) EXCEPT !.logs = @ \o entries],
                   ok |-> TRUE]
             ELSE IF first_index > Len(ls.logs) + 1
             THEN [ls |-> ls, ok |-> FALSE]
             ELSE [ls |-> [ls EXCEPT !.logs = @ \o entries], ok |-> TRUE]

\* MemLogStore::commit: the store it leaves and whether it returned Ok
LogCommit(ls, index) ==
    IF index = 0 THEN [ls |-> ls, ok |-> TRUE]
    ELSE IF index > Len(ls.logs) THEN [ls |-> ls, ok |-> FALSE]
    ELSE IF index < ls.committed_index THEN [ls |-> ls, ok |-> FALSE]
    ELSE [ls |-> [ls EXCEPT !.committed_index = index], ok |-> TRUE]

\* RaftMessage
AppendEntries(term, leader_id, prev_log_index, prev_log_term, entries, leader_commit) ==
    [type |-> "AppendEntries", term |-> term, leader_id |-> leader_id,
     prev_log_index |-> prev_log_index, prev_log_term |-> prev_log_term,
     entries |-> entries, leader_commit |-> leader_commit]

AppendEntriesResponse(term, success, matched) ==
    [type |-> "AppendEntriesResponse", term |-> term, success |-> success,
     match_index |-> matched]

\* a log check that looks for the entry and not at its term
LogOkAnyTerm(ls, prev_log_index, prev_log_term) ==
    prev_log_index = 0 \/ LogGet(ls, prev_log_index) # NoValue

\* log_ok in handle_append_entries
LogOk(ls, prev_log_index, prev_log_term) ==
    IF prev_log_index = 0 THEN TRUE
    ELSE LET entry == LogGet(ls, prev_log_index)
         IN  IF entry # NoValue THEN entry.some.term = prev_log_term ELSE FALSE

\* the lock section of handle_append_entries: the state and the log store it
\* leaves, whether it ran to its end (no call returned Err), and `success`
AppendEntriesOutcome(st, ls, request) ==
    IF request.term < st.current_term
    THEN [st |-> st, ls |-> ls, ok |-> TRUE, success |-> FALSE,
          current_term |-> st.current_term]
    ELSE LET follower == [UpdateTerm(st, request.term).st EXCEPT !.role = "Follower"]
             rejected == [st |-> follower, ls |-> ls, ok |-> TRUE, success |-> FALSE,
                          current_term |-> request.term]
         IN  IF ~LogOk(ls, request.prev_log_index, request.prev_log_term)
             THEN rejected
             ELSE LET truncated == IF request.prev_log_index + 1 <= Len(ls.logs)
                                   THEN DeleteFrom(ls, request.prev_log_index + 1)
                                   ELSE ls
                      appended == IF request.entries # <<>>
                                  THEN LogAppend(truncated, request.entries)
                                  ELSE [ls |-> truncated, ok |-> TRUE]
                      committed ==
                          IF request.leader_commit > appended.ls.committed_index
                          THEN LogCommit(appended.ls,
                                         Min2(request.leader_commit, Len(appended.ls.logs)))
                          ELSE [ls |-> appended.ls, ok |-> TRUE]
                  IN  IF ~appended.ok
                      THEN [rejected EXCEPT !.ls = appended.ls, !.ok = FALSE]
                      ELSE IF ~committed.ok
                      THEN [rejected EXCEPT !.ls = committed.ls, !.ok = FALSE]
                      ELSE [rejected EXCEPT !.ls = committed.ls, !.success = TRUE]

\* handle_message on AppendEntries: RaftConsensus::handle_append_entries
HandleAppendEntries(envelope) ==
    LET node_id == envelope.to
        request == envelope.message
        outcome == AppendEntriesOutcome(state[node_id], LogStoreOf(node_id), request)
        response == AppendEntriesResponse(outcome.current_term, outcome.success,
                        IF outcome.success
                        THEN request.prev_log_index + Len(request.entries) ELSE 0)
    IN
    /\ request.type = "AppendEntries"
    /\ state' = [state EXCEPT ![node_id] = outcome.st]
    /\ log' = [log EXCEPT ![node_id] = outcome.ls.logs]
    /\ committed_index' = [committed_index EXCEPT ![node_id] = outcome.ls.committed_index]
    /\ msgs' = IF outcome.ok
               THEN Send(Receive(msgs, envelope), request.leader_id, response)
               ELSE Receive(msgs, envelope)
    /\ UNCHANGED <<next_index, match_index, timer, elections>>
    /\ UNCHANGED storageVars

\* update_commit_index: the log store it leaves
UpdateCommitIndex(st, ls, match_indices, cluster_len) ==
    IF st.role # "Leader" THEN ls
    ELSE LET agreed == {index \in ls.committed_index..Len(ls.logs) :
                          /\ LogGet(ls, index) # NoValue
                          /\ LogGet(ls, index).some.term = st.current_term
                          /\ 1 + Cardinality({peer_id \in DOMAIN match_indices :
                                                 match_indices[peer_id] >= index})
                                > (cluster_len + 1) \div 2}
         IN  IF agreed = {} THEN ls
             ELSE LogCommit(ls, CHOOSE index \in agreed :
                                    \A other \in agreed : other <= index).ls

\* handle_message on AppendEntriesResponse, which passes the id of the node
\* itself as follower_id: RaftConsensus::handle_append_entries_response
HandleAppendEntriesResponse(envelope) ==
    LET node_id == envelope.to
        follower_id == node_id
        response == envelope.message
        st == state[node_id]
        matched == MapInsert(match_index[node_id], follower_id, response.match_index)
    IN
    /\ response.type = "AppendEntriesResponse"
    /\ msgs' = Receive(msgs, envelope)
    /\ IF response.term > st.current_term
       THEN /\ state' = [state EXCEPT ![node_id] = UpdateTerm(st, response.term).st]
            /\ UNCHANGED <<committed_index, next_index, match_index>>
       ELSE IF st.role # "Leader" \/ response.term # st.current_term
       THEN UNCHANGED <<state, committed_index, next_index, match_index>>
       ELSE IF response.success
       THEN /\ next_index' = [next_index EXCEPT ![node_id] =
                                 MapInsert(@, follower_id, response.match_index + 1)]
            /\ match_index' = [match_index EXCEPT ![node_id] = matched]
            /\ committed_index' = [committed_index EXCEPT ![node_id] =
                  UpdateCommitIndex(st, LogStoreOf(node_id), matched,
                                    Cardinality(Cluster(node_id))).committed_index]
            /\ state' = state
       ELSE /\ next_index' = [next_index EXCEPT ![node_id] =
                                 IF follower_id \in DOMAIN @
                                 THEN [@ EXCEPT ![follower_id] = Max2(@ - 1, 0)]
                                 ELSE @]
            /\ UNCHANGED <<state, committed_index, match_index>>
    /\ UNCHANGED <<log, timer, elections>>
    /\ UNCHANGED storageVars

\* process_command on a leader: the entry is appended to the local log; the
\* wait for its commit changes nothing
ProcessCommand(node_id) ==
    LET st == state[node_id]
        entry == LogEntry(st.current_term, LastIndex(node_id) + 1)
    IN
    /\ st.role = "Leader"
    /\ LastIndex(node_id) < MaxLog
    /\ log' = [log EXCEPT ![node_id] = LogAppend(LogStoreOf(node_id), <<entry>>).ls.logs]
    /\ UNCHANGED <<state, committed_index, next_index, match_index, timer, msgs,
                   elections, delivered>>
    /\ UNCHANGED storageVars

(***************************************************************************)
(* One node against its network: the peers are not run, and the network    *)
(* may hand the node any message a peer could have sent.                   *)
(***************************************************************************)

\* the node that is run
Local == "n1"

\* the terms of the messages of the peers
InputTerms == {1, 2}

\* the log indexes of the messages of the peers
InputIndexes == {0, 1, 2}

\* the peer that sends AppendEntries and Heartbeat
InputLeaders == {"n2"}

\* the runs of `len` entries whose index fields start at `first` and whose
\* terms lie in lo..hi and do not decrease
EntryRuns(first, len, lo, hi) ==
    {[i \in 1..len |-> LogEntry(terms[i], first + i - 1)] :
        terms \in {t \in [1..len -> lo..hi] :
                      \A i, j \in 1..len : i < j => t[i] <= t[j]}}

\* the entries of an AppendEntries: what get_range returns for the indexes
\* from prev_log_index + 1 on, in a log whose index fields agree with the
\* positions or, after a compaction, lie above them
InputEntries(term, prev_log_index, prev_log_term) ==
    UNION {EntryRuns(first, len, Max2(prev_log_term, 1), term) :
              first \in {prev_log_index + 1, prev_log_index + 2},
              len \in {n \in InputIndexes : prev_log_index + n \in InputIndexes}}

\* the prev_log_term a leader of `term` reads from its log at prev_log_index
InputPrevTerms(term, prev_log_index) ==
    IF prev_log_index = 0 THEN {0} ELSE {t \in InputTerms : t <= term}

InputAppendEntries ==
    UNION {UNION {{AppendEntries(term, leader_id, prev_log_index, prev_log_term,
                                 entries, leader_commit) :
                      leader_id \in InputLeaders,
                      entries \in InputEntries(term, prev_log_index, prev_log_term),
                      leader_commit \in InputIndexes} :
                     prev_log_term \in InputPrevTerms(term, prev_log_index)} :
              term \in InputTerms, prev_log_index \in InputIndexes}

InputVoteRequests ==
    {RequestVote(term, candidate_id, 0, 0) :
        term \in InputTerms, candidate_id \in Cluster(Local)}

InputVoteResponses ==
    {RequestVoteResponse(term, vote_granted) :
        term \in InputTerms, vote_granted \in BOOLEAN}

InputHeartbeats ==
    {Heartbeat(term, leader_id) : term \in InputTerms, leader_id \in InputLeaders}

InputAppendEntriesResponses ==
    {AppendEntriesResponse(term, success, matched) :
        term \in InputTerms, success \in BOOLEAN, matched \in InputIndexes}

\* what the network may hand to the transport of the node: any of the
\* messages a peer could have sent
Arrivals(messages) ==
    IF delivered < MaxDelivered
    THEN {Envelope(Local, message) : message \in messages}
    ELSE {}

\* the network hands one more message to the node
Arrive == delivered' = delivered + 1

(***************************************************************************)
(* A follower and its election timer, while the leader keeps sending       *)
(* AppendEntries.  Time passes in steps of one heartbeat interval.         *)
(***************************************************************************)

\* random_election_timeout: a time between the two limits of the config
ElectionTimeouts ==
    {ms \in ElectionTimeoutMin..ElectionTimeoutMax : ms % HeartbeatInterval = 0}

\* the longest time between two AppendEntries of the leader: the sleep of
\* run_heartbeat_timer and as much again on the way, less than any election
\* timeout
MaxGap == 2 * HeartbeatInterval

\* time passes: the next AppendEntries of the leader is not yet overdue, and
\* the loop of run_election_timer has not slept past an elapsed timeout
FollowerTick ==
    /\ leader_gap + HeartbeatInterval <= MaxGap
    /\ election_elapsed + HeartbeatInterval < election_timeout + ElectionTimerSleep
    /\ election_elapsed' = election_elapsed + HeartbeatInterval
    /\ leader_gap' = leader_gap + HeartbeatInterval
    /\ UNCHANGED <<election_timeout, applyVars>>
    /\ UNCHANGED <<storageVars, raftVars>>

\* handle_message on an AppendEntries of the current leader: the handler
\* leaves last_election_time and election_timeout alone
FollowerAppendEntries(envelope) ==
    /\ envelope.message.term >= state[Local].current_term
    /\ HandleAppendEntries(envelope)
    /\ Arrive
    /\ leader_gap' = 0
    /\ UNCHANGED <<election_elapsed, election_timeout, applyVars>>

\* handle_message on a Heartbeat: update_term, then reset_election_timeout
FollowerHeartbeat(envelope) ==
    /\ HandleHeartbeat(envelope)
    /\ Arrive
    /\ IF UpdateTerm(state[Local], envelope.message.term).ok
       THEN /\ election_elapsed' = 0
            /\ election_timeout' \in ElectionTimeouts
       ELSE UNCHANGED <<election_elapsed, election_timeout>>
    /\ UNCHANGED <<leader_gap, applyVars>>

\* handle_election_timeout once last_election_time.elapsed() has reached
\* election_timeout: begin_election, which resets the timeout
FollowerElectionTimeout ==
    /\ election_elapsed >= election_timeout
    /\ ElectionTimeout(Local)
    /\ election_elapsed' = 0
    /\ election_timeout' \in ElectionTimeouts
    /\ UNCHANGED <<leader_gap, applyVars>>

FollowerSendVoteRequests ==
    /\ SendVoteRequests(Local)
    /\ UNCHANGED nodeVars

(***************************************************************************)
(* The log store on its own: MemLogStore under any sequence of append,     *)
(* commit, snapshot and restore_snapshot, on two nodes that may hand each  *)
(* other their snapshot files.                                             *)
(***************************************************************************)

\* the nodes whose stores are run
StoreNodes == {"n1", "n2"}

\* SnapshotMetadata and Snapshot, without the timestamp
SnapshotOf(last_index, last_term, data) ==
    [metadata |-> [last_index |-> last_index, last_term |-> last_term],
     data |-> data]

\* bincode::serialize of a Vec<LogEntry>: the length, then the fields of
\* every entry
RECURSIVE SerializeEntries(_)
SerializeEntries(entries) ==
    IF entries = <<>> THEN <<>>
    ELSE <<Head(entries).term, Head(entries).index>> \o SerializeEntries(Tail(entries))

SerializeLogs(entries) == <<Len(entries)>> \o SerializeEntries(entries)

\* bincode::deserialize::<Vec<LogEntry>>: NoValue when the bytes are not
\* the length and the fields of that many entries
DeserializeLogs(data) ==
    IF data = <<>> \/ Len(data) # 1 + 2 * data[1] THEN NoValue
    ELSE Some([i \in 1..data[1] |-> LogEntry(data[2 * i], data[2 * i + 1])])

\* the bytes of snapshot.dat: bincode::serialize of a Snapshot, or of an
\* Option<Snapshot>, which begins with the tag of the Option
SerializeSnapshot(snapshot) == [of |-> "Snapshot", value |-> snapshot]

SerializeOption(snapshot) == [of |-> "Option<Snapshot>", value |-> snapshot]

\* bincode::deserialize::<Snapshot>: bytes that begin with an Option tag do
\* not hold the fields where a Snapshot has them
DeserializeSnapshot(bytes) ==
    IF bytes.of = "Snapshot" THEN Some(bytes.value) ELSE NoValue

\* a comparison that finds no snapshot older than the current one
IsOlderNever(snapshot, current) == FALSE

\* if let Some(current) = &self.current_snapshot
\*     { if snapshot.metadata.last_index < current.metadata.last_index
IsOlder(snapshot, current) ==
    current # NoValue /\ snapshot.metadata.last_index < current.some.metadata.last_index

\* MemLogStore::snapshot: the store it leaves, its current_snapshot, the
\* file it wrote if any, and whether it returned Ok
LogSnapshot(ls, current) ==
    LET snapshot_index == ls.committed_index
        entry == LogGet(ls, snapshot_index)
        snapshot == SnapshotOf(snapshot_index, entry.some.term,
                               SerializeLogs(SubSeq(ls.logs, 1, snapshot_index)))
    IN  IF snapshot_index = 0
        THEN [ls |-> ls, current |-> current, file |-> NoValue, ok |-> TRUE]
        ELSE IF entry = NoValue
        THEN [ls |-> ls, current |-> current, file |-> NoValue, ok |-> FALSE]
        ELSE [ls |-> [ls EXCEPT !.logs = SubSeq(@, snapshot_index + 1, Len(@))],
              current |-> Some(snapshot),
              file |-> Some(SerializeSnapshot(snapshot)),
              ok |-> TRUE]

\* MemLogStore::restore_snapshot
RestoreSnapshot(ls, current, bytes) ==
    LET parsed == DeserializeSnapshot(bytes)
        snapshot == parsed.some
        snapshot_logs == DeserializeLogs(snapshot.data)
        refused == [ls |-> ls, current |-> current, file |-> NoValue, ok |-> FALSE]
    IN  IF parsed = NoValue THEN refused
        ELSE IF IsOlder(snapshot, current) THEN refused
        ELSE IF snapshot_logs = NoValue THEN refused
        ELSE [ls |-> [logs |-> snapshot_logs.some,
                      committed_index |-> snapshot.metadata.last_index],
              current |-> Some(snapshot),
              file |-> Some(SerializeOption(snapshot)),
              ok |-> TRUE]

\* a call of the store of a node has returned
StoreCall(node_id, op, arg, outcome) ==
    /\ log' = [log EXCEPT ![node_id] = outcome.ls.logs]
    /\ committed_index' = [committed_index EXCEPT ![node_id] = outcome.ls.committed_index]
    /\ last' = Call(op, node_id, arg, IF outcome.ok THEN NoValue ELSE Err)
    /\ UNCHANGED <<strings, lists, stack, cache, now, profile, nops, begun>>
    /\ UNCHANGED <<state, next_index, match_index, timer, msgs, elections, delivered>>
    /\ UNCHANGED <<connVars, taskVars, nodeVars>>

\* append of one entry after the last one, as process_command makes it
StoreAppend(node_id) ==
    /\ Len(log[node_id]) < MaxLog
    /\ StoreCall(node_id, "append", <<>>,
                 LogAppend(LogStoreOf(node_id),
                           <<LogEntry(state[node_id].current_term, LastIndex(node_id) + 1)>>))
    /\ UNCHANGED snapVars

StoreCommit(node_id, index) ==
    /\ StoreCall(node_id, "commit", <<>>, LogCommit(LogStoreOf(node_id), index))
    /\ UNCHANGED snapVars

StoreSnapshot(node_id) ==
    LET outcome == LogSnapshot(LogStoreOf(node_id), current_snapshot[node_id])
    IN  /\ StoreCall(node_id, "snapshot", <<>>, outcome)
        /\ current_snapshot' = [current_snapshot EXCEPT ![node_id] = outcome.current]
        /\ snapshot_file' = IF outcome.file = NoValue THEN snapshot_file
                            ELSE [snapshot_file EXCEPT ![node_id] = outcome.file]

\* restore_snapshot with the bytes of the snapshot file of a node
StoreRestore(node_id, from) ==
    LET outcome == RestoreSnapshot(LogStoreOf(node_id), current_snapshot[node_id],
                                   snapshot_file[from].some)
    IN  /\ snapshot_file[from] # NoValue
        /\ StoreCall(node_id, "restore_snapshot", from, outcome)
        /\ current_snapshot' = [current_snapshot EXCEPT ![node_id] = outcome.current]
        /\ snapshot_file' = IF outcome.file = NoValue THEN snapshot_file
                            ELSE [snapshot_file EXCEPT ![node_id] = outcome.file]

(***************************************************************************)
(* The leader and its tasks.  Node Local is run as the leader with the     *)
(* Mutexes of RaftConsensus: every task stops at a lock that another task, *)
(* or itself, holds.  The peers run handle_append_entries on what the      *)
(* leader sends.  The Mutex of the log store is held for one call at a     *)
(* time, by a task that waits for nothing while it holds it.               *)
(***************************************************************************)

\* the Mutexes of RaftConsensus that a task keeps across an await
LockNames == {"state", "next_index", "match_index"}

\* the call of process_command, the heartbeat timer, the handler of inbound
\* messages, and for every peer the task that replicate_logs spawns for it
Threads == {"client", "timer", "handler"} \cup Cluster(Local)

\* a task that is not running: `index` is the index a caller waits for,
\* `peers` what is left of the loop over the cluster, `request` the message
\* a task sends or handles, `result` what process_command returned last
TaskNew ==
    [pc |-> "idle", index |-> 0, peers |-> {}, request |-> NoValue,
     result |-> "none"]

\* the term in which Local leads, and what the term before it has left in
\* the logs of Local and n2: nothing, or an entry that n3 has not got
LeaderTerm == 2

OldLogs == {<<>>, <<LogEntry(1, 1)>>}

Free(name) == locks[name] = NoValue

\* Mutex::lock returns to task t
Acquire(held, t, name) == [held EXCEPT ![name] = Some(t)]

\* the guards of task t go out of scope
ReleaseAll(held, t) ==
    [name \in LockNames |-> IF held[name] = Some(t) THEN NoValue ELSE held[name]]

\* MemLogStore::get_range
GetRange(ls, start, end) ==
    IF start = 0 \/ start > end \/ start > Len(ls.logs) THEN <<>>
    ELSE SubSeq(ls.logs, start, Min2(end, Len(ls.logs)))

\* a call of state_machine.apply: the entry whose command it was given, and
\* the caller
Applied(entry, by) == [entry |-> entry, by |-> by]

\* process_command up to wait_for_commit: the guard of the state is taken
\* and lives to the end of the function; the entry is appended
ClientCall(t) ==
    /\ task[t].pc = "idle"
    /\ Free("state")
    /\ ProcessCommand(Local)
    /\ locks' = Acquire(locks, t, "state")
    /\ task' = [task EXCEPT ![t] =
                  [@ EXCEPT !.pc = "wait_for_commit",
                            !.index = LastIndex(Local) + 1,
                            !.request = LogEntry(state[Local].current_term,
                                                 LastIndex(Local) + 1),
                            !.result = "none"]]

\* the loop of run_heartbeat_timer wakes up: should_send_heartbeat and the
\* head of replicate_logs read the state
TimerFire(t) ==
    /\ task[t].pc = "idle"
    /\ Free("state")
    /\ state[Local].role = "Leader"
    /\ task' = [task EXCEPT ![t] = [@ EXCEPT !.pc = "replicate_logs",
                                            !.peers = Cluster(Local)]]
    /\ UNCHANGED <<locks, raftVars, storageVars>>

\* the loop of replicate_logs passes a peer
NextPeer(t, peer_id) ==
    LET peers == task[t].peers \ {peer_id}
    IN  [task[t] EXCEPT !.peers = peers,
                        !.pc = IF peers = {} THEN "idle" ELSE @]

\* one turn of the loop of replicate_logs: the request for a peer is built
\* and a task is spawned that sends it
ReplicateTo(t, peer_id) ==
    LET ls == LogStoreOf(Local)
        next == IF peer_id \in DOMAIN next_index[Local]
                THEN next_index[Local][peer_id] ELSE 1
        prev_log_index == next - 1
        prev == LogGet(ls, prev_log_index)
        last_log_index == Len(ls.logs)
        entries == IF next <= last_log_index
                   THEN GetRange(ls, next, last_log_index + 1) ELSE <<>>
        request == AppendEntries(state[Local].current_term, Local, prev_log_index,
                       IF prev_log_index = 0 THEN 0 ELSE prev.some.term,
                       entries, ls.committed_index)
    IN
    /\ task[t].pc = "replicate_logs"
    /\ peer_id \in task[t].peers
    /\ Free("next_index")
    /\ IF next = 0
       THEN \* next_index - 1 on u64 zero: a panic that ends the timer task,
            \* or u64::MAX, for which the log store has no entry
            \E build \in {"debug", "release"} :
               task' = [task EXCEPT ![t] =
                          IF build = "debug" THEN [TaskNew EXCEPT !.pc = "panicked"]
                          ELSE NextPeer(t, peer_id)]
       ELSE IF prev_log_index # 0 /\ prev = NoValue
       THEN task' = [task EXCEPT ![t] = NextPeer(t, peer_id)]
       ELSE /\ task[peer_id].pc = "idle"
            /\ BagCardinality(msgs) < MaxInFlight
            /\ task' = [task EXCEPT ![t] = NextPeer(t, peer_id),
                                    ![peer_id] = [TaskNew EXCEPT !.pc = "send",
                                                                 !.request = request]]
    /\ UNCHANGED <<locks, raftVars, storageVars>>

\* transport.send returns Ok: the message is in the channel of the transport
SendOk(t) ==
    /\ task[t].pc = "send"
    /\ msgs' = Send(msgs, t, task[t].request)
    /\ task' = [task EXCEPT ![t] =
                  IF task[t].request.entries # <<>>
                  THEN [@ EXCEPT !.pc = "lock_next_index"] ELSE TaskNew]
    /\ UNCHANGED <<state, log, committed_index, next_index, match_index, timer,
                   elections, delivered>>
    /\ UNCHANGED <<locks, storageVars>>

\* transport.send returns Err: next_index of the peer goes down by one
SendFails(t) ==
    /\ task[t].pc = "send"
    /\ Free("next_index")
    /\ next_index' = [next_index EXCEPT ![Local] =
                         IF t \in DOMAIN @ THEN [@ EXCEPT ![t] = Max2(@ - 1, 0)]
                         ELSE @]
    /\ task' = [task EXCEPT ![t] = TaskNew]
    /\ UNCHANGED <<state, log, committed_index, match_index, timer, msgs,
                   elections, delivered>>
    /\ UNCHANGED <<locks, storageVars>>

\* next_index_ref.lock().await in the spawned task
SenderLockNextIndex(t) ==
    /\ task[t].pc = "lock_next_index"
    /\ Free("next_index")
    /\ locks' = Acquire(locks, t, "next_index")
    /\ task' = [task EXCEPT ![t].pc = "lock_match_index"]
    /\ UNCHANGED <<raftVars, storageVars>>

\* match_index_ref.lock().await in the spawned task, and the two inserts:
\* the entries sent count as stored by the peer
SenderLockMatchIndex(t) ==
    LET request == task[t].request
        new_next_index == request.prev_log_index + 1 + Len(request.entries)
    IN
    /\ task[t].pc = "lock_match_index"
    /\ Free("match_index")
    /\ locks' = Acquire(locks, t, "match_index")
    /\ next_index' = [next_index EXCEPT ![Local] = MapInsert(@, t, new_next_index)]
    /\ match_index' = [match_index EXCEPT ![Local] =
                          MapInsert(@, t, new_next_index - 1)]
    /\ task' = [task EXCEPT ![t].pc = "update_commit_index"]
    /\ UNCHANGED <<state, log, committed_index, timer, msgs, elections, delivered>>
    /\ UNCHANGED storageVars

\* the head of update_commit_index: the state is read under its lock
UpdateCommitIndexState(t) ==
    /\ task[t].pc = "update_commit_index"
    /\ Free("state")
    /\ IF state[Local].role = "Leader"
       THEN /\ task' = [task EXCEPT ![t].pc = "update_commit_index_match"]
            /\ locks' = locks
       ELSE /\ task' = [task EXCEPT ![t] = TaskNew]
            /\ locks' = ReleaseAll(locks, t)
    /\ UNCHANGED <<raftVars, storageVars>>

\* the rest of update_commit_index, under the lock of match_index; when it
\* returns, the guards of its caller go
UpdateCommitIndexMatch(t) ==
    /\ task[t].pc = "update_commit_index_match"
    /\ Free("match_index")
    /\ committed_index' = [committed_index EXCEPT ![Local] =
          UpdateCommitIndex(state[Local], LogStoreOf(Local), match_index[Local],
                            Cardinality(Cluster(Local))).committed_index]
    /\ locks' = ReleaseAll(locks, t)
    /\ task' = [task EXCEPT ![t] = TaskNew]
    /\ UNCHANGED <<state, log, next_index, match_index, timer, msgs, elections,
                   delivered>>
    /\ UNCHANGED storageVars

\* handle_message on AppendEntriesResponse up to the tables: the head of
\* handle_append_entries_response under the lock of the state, which it keeps
HandleResponse(t, envelope) ==
    LET response == envelope.message
        st == state[Local]
    IN
    /\ task[t].pc = "idle"
    /\ envelope.to = Local
    /\ response.type = "AppendEntriesResponse"
    /\ Free("state")
    /\ msgs' = Receive(msgs, envelope)
    /\ IF response.term > st.current_term
       THEN /\ state' = [state EXCEPT ![Local] = UpdateTerm(st, response.term).st]
            /\ UNCHANGED <<locks, task>>
       ELSE IF st.role # "Leader" \/ response.term # st.current_term
       THEN UNCHANGED <<state, locks, task>>
       ELSE /\ state' = state
            /\ locks' = Acquire(locks, t, "state")
            /\ task' = [task EXCEPT ![t] =
                          [@ EXCEPT !.pc = IF response.success
                                           THEN "response_next_index"
                                           ELSE "response_failed",
                                    !.request = response]]
    /\ UNCHANGED <<log, committed_index, next_index, match_index, timer,
                   elections, delivered>>
    /\ UNCHANGED storageVars

\* self.next_index.lock().await in handle_append_entries_response
HandlerLockNextIndex(t) ==
    /\ task[t].pc = "response_next_index"
    /\ Free("next_index")
    /\ locks' = Acquire(locks, t, "next_index")
    /\ task' = [task EXCEPT ![t].pc = "response_match_index"]
    /\ UNCHANGED <<raftVars, storageVars>>

\* self.match_index.lock().await, the two inserts under the id that
\* handle_message passed, which is the id of the node itself, the end of the
\* block and drop(state)
HandlerLockMatchIndex(t) ==
    LET follower_id == Local
        response == task[t].request
    IN
    /\ task[t].pc = "response_match_index"
    /\ Free("match_index")
    /\ next_index' = [next_index EXCEPT ![Local] =
                         MapInsert(@, follower_id, response.match_index + 1)]
    /\ match_index' = [match_index EXCEPT ![Local] =
                          MapInsert(@, follower_id, response.match_index)]
    /\ locks' = ReleaseAll(locks, t)
    /\ task' = [task EXCEPT ![t] = [TaskNew EXCEPT !.pc = "update_commit_index"]]
    /\ UNCHANGED <<state, log, committed_index, timer, msgs, elections, delivered>>
    /\ UNCHANGED storageVars

\* the else branch of handle_append_entries_response
HandlerFailed(t) ==
    LET follower_id == Local
    IN
    /\ task[t].pc = "response_failed"
    /\ Free("next_index")
    /\ next_index' = [next_index EXCEPT ![Local] =
                         IF follower_id \in DOMAIN @
                         THEN [@ EXCEPT ![follower_id] = Max2(@ - 1, 0)]
                         ELSE @]
    /\ locks' = ReleaseAll(locks, t)
    /\ task' = [task EXCEPT ![t] = TaskNew]
    /\ UNCHANGED <<state, log, committed_index, match_index, timer, msgs,
                   elections, delivered>>
    /\ UNCHANGED storageVars

\* a peer handles what the leader sent it
PeerHandle(envelope) ==
    /\ envelope.to \in Cluster(Local)
    /\ HandleAppendEntries(envelope)
    /\ UNCHANGED <<delivered, taskVars>>

\* the writer task of the transport finds no connection to the addressee, or
\* the write fails: the message is gone
Lose(envelope) ==
    /\ msgs' = Receive(msgs, envelope)
    /\ UNCHANGED <<state, log, committed_index, next_index, match_index, timer,
                   elections, delivered>>
    /\ UNCHANGED <<taskVars, storageVars>>

\* run_heartbeat_timer with replicate_logs
TimerStep ==
    \/ TimerFire("timer")
    \/ \E peer_id \in Cluster(Local) : ReplicateTo("timer", peer_id)

\* the task spawned for a peer, after a send that returned Ok
SenderStep(t) ==
    \/ SendOk(t)
    \/ SenderLockNextIndex(t)
    \/ SenderLockMatchIndex(t)
    \/ UpdateCommitIndexState(t)
    \/ UpdateCommitIndexMatch(t)

\* handle_message on the responses of the peers
HandlerStep ==
    \/ \E envelope \in BagToSet(msgs) : HandleResponse("handler", envelope)
    \/ HandlerLockNextIndex("handler")
    \/ HandlerLockMatchIndex("handler")
    \/ HandlerFailed("handler")
    \/ UpdateCommitIndexState("handler")
    \/ UpdateCommitIndexMatch("handler")

PeerStep == \E envelope \in BagToSet(msgs) : PeerHandle(envelope)

\* what the tasks of the leader and its peers can do while a caller waits
Replication ==
    \/ TimerStep
    \/ \E t \in Cluster(Local) : SenderStep(t)
    \/ HandlerStep
    \/ PeerStep

\* wait_for_commit and the rest of process_command: Ok once committed_index
\* has reached the entry; ReplicationTimeout after 5 seconds, which is longer
\* than any step that a task of the cluster is able to take
WaitForCommit(t) ==
    /\ task[t].pc = "wait_for_commit"
    /\ IF committed_index[Local] >= task[t].index
       THEN /\ task' = [task EXCEPT ![t] = [TaskNew EXCEPT !.result = "Ok"]]
            /\ applied' = Append(applied, Applied(task[t].request, "process_command"))
       ELSE /\ ~ENABLED Replication
            /\ task' = [task EXCEPT ![t] =
                          [TaskNew EXCEPT !.result = "ReplicationTimeout"]]
            /\ applied' = applied
    /\ locks' = ReleaseAll(locks, t)
    /\ UNCHANGED <<applied_index, last_snapshot_index>>
    /\ UNCHANGED <<raftVars, storageVars>>

(***************************************************************************)
(* The node around its consensus module: the apply loop, the snapshot     *)
(* manager and process_command, on node Local.                             *)
(***************************************************************************)

\* RaftNode.snapshot_threshold as the node is built here
SnapshotThreshold == 2

\* the loop of apply_committed_entries from applied index `index` on, with
\* the committed index it read before the loop: the applied index and the
\* calls of state_machine.apply it ends with
RECURSIVE ApplyLoop(_, _, _, _)
ApplyLoop(ls, index, committed, calls) ==
    IF index < committed /\ LogGet(ls, index + 1) # NoValue
    THEN ApplyLoop(ls, index + 1, committed,
                   Append(calls, Applied(LogGet(ls, index + 1).some, "apply_loop")))
    ELSE [applied_index |-> index, applied |-> calls]

\* one call of apply_committed_entries that applies something
ApplyCommittedEntries ==
    LET outcome == ApplyLoop(LogStoreOf(Local), applied_index,
                             committed_index[Local], applied)
    IN  /\ outcome.applied_index # applied_index
        /\ applied_index' = outcome.applied_index
        /\ applied' = outcome.applied
        /\ UNCHANGED <<last_snapshot_index, clockVars>>
        /\ UNCHANGED <<storageVars, raftVars, connVars, taskVars, snapVars>>

\* check_snapshot when the threshold is reached, with create_snapshot
CheckSnapshot ==
    LET outcome == LogSnapshot(LogStoreOf(Local), current_snapshot[Local])
    IN  /\ applied_index - last_snapshot_index >= SnapshotThreshold
        /\ log' = [log EXCEPT ![Local] = outcome.ls.logs]
        /\ committed_index' = [committed_index EXCEPT ![Local] = outcome.ls.committed_index]
        /\ current_snapshot' = [current_snapshot EXCEPT ![Local] = outcome.current]
        /\ snapshot_file' = IF outcome.file = NoValue THEN snapshot_file
                            ELSE [snapshot_file EXCEPT ![Local] = outcome.file]
        /\ last_snapshot_index' = IF outcome.ok THEN applied_index
                                  ELSE last_snapshot_index
        /\ outcome.ok \/ outcome.ls # LogStoreOf(Local)
        /\ last_snapshot_index' # last_snapshot_index
        /\ UNCHANGED <<applied_index, applied, clockVars>>
        /\ UNCHANGED <<state, next_index, match_index, timer, msgs, elections, delivered>>
        /\ UNCHANGED <<storageVars, connVars, taskVars>>

\* a message handler of the consensus module, which starts by locking the
\* state
NodeHandles(handled) ==
    /\ Free("state")
    /\ handled
    /\ Arrive
    /\ UNCHANGED <<connVars, taskVars, snapVars, nodeVars>>

\* the election timer of the node, which locks the state
NodeElectionTimeout ==
    /\ Free("state")
    /\ ElectionTimeout(Local)
    /\ UNCHANGED <<connVars, taskVars, snapVars, nodeVars>>

(***************************************************************************)
(* The cluster: every node runs its election timer, its handlers,          *)
(* process_command and, as leader, replicate_logs.  The tasks that         *)
(* replicate_logs spawns are followed up to the return of transport.send;  *)
(* what they do with the locks after it is the matter of the leader above. *)
(***************************************************************************)

\* one turn of the loop of replicate_logs on a leader, and the send of the
\* task it spawns
ClusterReplicate(node_id, peer_id) ==
    LET ls == LogStoreOf(node_id)
        next == IF peer_id \in DOMAIN next_index[node_id]
                THEN next_index[node_id][peer_id] ELSE 1
        prev_log_index == next - 1
        prev == LogGet(ls, prev_log_index)
        last_log_index == Len(ls.logs)
        entries == IF next <= last_log_index
                   THEN GetRange(ls, next, last_log_index + 1) ELSE <<>>
        request == AppendEntries(state[node_id].current_term, node_id, prev_log_index,
                       IF prev_log_index = 0 THEN 0 ELSE prev.some.term,
                       entries, ls.committed_index)
    IN
    /\ state[node_id].role = "Leader"
    /\ next >= 1
    /\ prev_log_index = 0 \/ prev # NoValue
    /\ BagCardinality(msgs) < MaxInFlight
    /\ msgs' = Send(msgs, peer_id, request)
    /\ UNCHANGED <<state, log, committed_index, next_index, match_index, timer,
                   elections, delivered>>
    /\ UNCHANGED storageVars

\* the transport hands a message to handle_message of its addressee
ClusterHandle(envelope) ==
    /\ \/ HandleVoteRequest(envelope)
       \/ HandleVoteResponse(envelope)
       \/ HandleHeartbeat(envelope)
       \/ HandleAppendEntries(envelope)
       \/ HandleAppendEntriesResponse(envelope)
    /\ UNCHANGED delivered

(***************************************************************************)
(* The server: one worker thread per connection, all of them sharing the   *)
(* storage engine behind one Mutex.                                        *)
(***************************************************************************)

Clients == {"c1", "c2"}

\* the keys and values of the lines that the clients send
LineKeys == {<<75>>}

LineValues == {<<65>>}

\* "RESULT:" followed by a uuid
ResultKeys == {<<82, 69, 83, 85, 76, 84, 58, 49>>}

StrNil == <<40, 110, 105, 108, 41>>

StrExecWithoutMulti == <<69, 82, 82, 32, 69, 88, 69, 67, 32, 119, 105, 116, 104, 111, 117, 116, 32, 77, 85, 76, 84, 73>>

StrDiscardWithoutMulti == <<69, 82, 82, 32, 68, 73, 83, 67, 65, 82, 68, 32, 119, 105, 116, 104, 111, 117, 116, 32, 77, 85, 76, 84, 73>>

StrNoRollback == <<69, 82, 82, 58, 32, 78, 111, 32, 97, 99, 116, 105, 118, 101, 32, 116, 114, 97, 110, 115, 97, 99, 116, 105, 111, 110, 32, 116, 111, 32, 114, 111, 108, 108, 98, 97, 99, 107>>

Command(name, key, value) == [name |-> name, key |-> key, value |-> value]

\* the lines a client may send, as [command, rest]
InputLines ==
    {Command("SET", key, value) : key \in LineKeys, value \in LineValues}
    \cup {Command("GET", key, <<>>) : key \in LineKeys}
    \cup {Command(name, <<>>, <<>>) : name \in {"MULTI", "EXEC", "DISCARD"}}

\* CommandParser::parse
Parse(line) ==
    CASE line.name = "SET" -> Command("Set", ToLowercase(line.key), line.value)
      [] line.name = "GET" -> Command("Get", ToLowercase(line.key), <<>>)
      [] line.name = "MULTI" -> Command("Multi", <<>>, <<>>)
      [] line.name = "EXEC" -> Command("Exec", <<>>, <<>>)
      [] line.name = "DISCARD" -> Command("Discard", <<>>, <<>>)

\* Vec<String>::join("\n")
RECURSIVE Join(_)
Join(strs) ==
    IF strs = <<>> THEN <<>>
    ELSE IF Len(strs) = 1 THEN strs[1]
    ELSE strs[1] \o <<10>> \o Join(Tail(strs))

\* str::lines: the pieces between line feeds, without the carriage return
\* that precedes a line feed and without an empty last piece
RECURSIVE SplitLines(_, _)
SplitLines(str, line) ==
    IF str = <<>> THEN (IF line = <<>> THEN <<>> ELSE <<line>>)
    ELSE IF Head(str) = 10
         THEN <<IF line # <<>> /\ line[Len(line)] = 13
                THEN SubSeq(line, 1, Len(line) - 1) ELSE line>>
              \o SplitLines(Tail(str), <<>>)
    ELSE SplitLines(Tail(str), Append(line, Head(str)))

Lines(str) == SplitLines(str, <<>>)

\* Connection::new, and where its worker stands: "read_line" in process,
\* "lock" waiting for the storage, "locked" holding it, "write" with the
\* response of handle_command; commands is the block that EXEC popped
ConnectionNew ==
    [pc |-> "read_line", transaction_stack |-> <<>>, command |-> NoValue,
     commands |-> <<>>, pending |-> <<>>, results |-> <<>>, response |-> <<>>]

NoConnection == [ConnectionNew EXCEPT !.pc = "none"]

Closed == [ConnectionNew EXCEPT !.pc = "closed"]

\* the commands that the connections hold and have not executed yet
RECURSIVE SumLen(_)
SumLen(seqs) == IF seqs = <<>> THEN 0 ELSE Len(Head(seqs)) + SumLen(Tail(seqs))

RECURSIVE QueuedIn(_)
QueuedIn(clients) ==
    IF clients = {} THEN 0
    ELSE LET c == CHOOSE x \in clients : TRUE
         IN  SumLen(conn[c].transaction_stack) + Len(conn[c].pending)
             + QueuedIn(clients \ {c})

\* the MULTI commands that wait for the storage
PendingMulti ==
    Cardinality({c \in Clients : /\ conn[c].pending # <<>>
                                  /\ Head(conn[c].pending).name = "Multi"})

\* a worker moves on to the storage lock with the commands to execute
ToStorage(c, command, blocks, commands) ==
    conn' = [conn EXCEPT ![c] = [@ EXCEPT !.pc = "lock",
                                        !.transaction_stack = blocks,
                                        !.command = command,
                                        !.commands =
                                            IF command.name = "Exec"
                                            THEN commands ELSE <<>>,
                                        !.pending = commands,
                                        !.results = <<>>]]

\* handle_command returns a response without a call of the executor
Respond(c, blocks, response) ==
    conn' = [conn EXCEPT ![c] = [@ EXCEPT !.pc = "write",
                                        !.transaction_stack = blocks,
                                        !.response = response]]

\* a block that takes its new entry at the front
PushCommandFirst(block, command) == <<command>> \o block

\* Vec::push on the block of the innermost MULTI
PushCommand(block, command) == Append(block, command)

\* the two errors, each under the other command
ErrWithoutMultiSwapped(name) ==
    IF name = "Exec" THEN StrDiscardWithoutMulti ELSE StrExecWithoutMulti

\* the error of an EXEC or DISCARD that has no MULTI to close
ErrWithoutMulti(name) ==
    IF name = "Exec" THEN StrExecWithoutMulti ELSE StrDiscardWithoutMulti

\* Server::run hands an accepted connection to a worker
Accept(c) ==
    /\ conn[c].pc = "none"
    /\ conn' = [conn EXCEPT ![c] = ConnectionNew]
    /\ UNCHANGED <<storage_lock, owner>>
    /\ UNCHANGED <<storageVars, raftVars>>

\* process reads a line; handle_command up to the call of the executor
ReadLine(c, line) ==
    LET command == Parse(line)
        blocks == conn[c].transaction_stack
        depth == Len(blocks)
    IN
    /\ conn[c].pc = "read_line"
    /\ CASE command.name = "Multi" ->
               /\ Depth + PendingMulti < MaxDepth
               /\ ToStorage(c, command, Append(blocks, <<>>), <<command>>)
         [] command.name = "Exec" ->
               IF blocks = <<>>
               THEN Respond(c, blocks, ErrWithoutMulti(command.name))
               ELSE ToStorage(c, command, SubSeq(blocks, 1, depth - 1), blocks[depth])
         [] command.name = "Discard" ->
               IF blocks = <<>>
               THEN Respond(c, blocks, ErrWithoutMulti(command.name))
               ELSE ToStorage(c, command, SubSeq(blocks, 1, depth - 1), <<command>>)
         [] OTHER ->
               /\ nops + QueuedIn(Clients) < MaxOps
               /\ IF blocks # <<>>
                  THEN Respond(c, [blocks EXCEPT ![depth] = PushCommand(@, command)],
                               StrQueued)
                  ELSE ToStorage(c, command, blocks, <<command>>)
    /\ UNCHANGED <<storage_lock, owner>>
    /\ UNCHANGED <<storageVars, raftVars>>

\* self.storage.lock().unwrap()
Lock(c) ==
    /\ conn[c].pc = "lock"
    /\ storage_lock = NoValue
    /\ storage_lock' = Some(c)
    /\ conn' = [conn EXCEPT ![c].pc = "locked"]
    /\ UNCHANGED owner
    /\ UNCHANGED <<storageVars, raftVars>>

\* the string that the executor makes of a result
Reply(command, call) ==
    CASE command.name = "Set" -> StrOK
      [] command.name = "Get" -> IF call.res = NoValue THEN StrNil ELSE call.res.some
      [] command.name = "Multi" -> StrOK
      [] command.name = "Discard" -> IF call.res = Err THEN StrNoRollback ELSE StrOK

\* a guard that is dropped after every command and taken again for the next
RelockedPerCommand(c, rest) ==
    IF rest = <<>> THEN [pc |-> "locked", storage_lock |-> Some(c)]
    ELSE [pc |-> "lock", storage_lock |-> NoValue]

\* let mut storage = self.storage.lock().unwrap(): the guard lives until the
\* executor returns, whatever is left to execute
HeldThrough(c, rest) == [pc |-> "locked", storage_lock |-> Some(c)]

\* the match of execute_command, or one turn of the loop of
\* execute_transaction: the next command runs against the storage
Execute(c) ==
    LET command == Head(conn[c].pending)
        guard == HeldThrough(c, Tail(conn[c].pending))
    IN
    /\ conn[c].pc = "locked"
    /\ conn[c].pending # <<>>
    /\ CASE command.name = "Set" -> Set(command.key, command.value)
         [] command.name = "Get" -> Get(command.key)
         [] command.name = "Multi" -> StartTransaction
         [] command.name = "Discard" -> RollbackTransaction
    /\ owner' = IF command.name = "Multi" THEN Append(owner, c)
                ELSE SubSeq(owner, 1, Len(stack'))
    /\ conn' = [conn EXCEPT ![c] = [@ EXCEPT !.pc = guard.pc,
                                            !.pending = Tail(@),
                                            !.results = Append(@, Reply(command, last'))]]
    /\ storage_lock' = guard.storage_lock

\* the executor returns, which releases the storage; handle_command makes the
\* response, and after a nested EXEC queues the results in the outer block
Return(c) ==
    LET blocks == conn[c].transaction_stack
        results == conn[c].results
        exec == conn[c].command.name = "Exec"
    IN
    /\ conn[c].pc = "locked"
    /\ conn[c].pending = <<>>
    /\ storage_lock' = NoValue
    /\ \E key \in ResultKeys :
          conn' = [conn EXCEPT ![c] =
                     [@ EXCEPT !.pc = "write",
                               !.transaction_stack =
                                   IF exec /\ blocks # <<>>
                                   THEN [blocks EXCEPT ![Len(blocks)] =
                                           @ \o [i \in 1..Len(results) |->
                                                   Command("Set", key, results[i])]]
                                   ELSE blocks,
                               !.command = NoValue,
                               !.commands = <<>>,
                               !.results = <<>>,
                               !.response =
                                   IF exec THEN Join(results) ELSE results[1]]]
    /\ UNCHANGED owner
    /\ UNCHANGED <<storageVars, raftVars>>

\* process writes the lines of the response to the stream and reads on
Write(c) ==
    /\ conn[c].pc = "write"
    /\ conn' = [conn EXCEPT ![c] = [@ EXCEPT !.pc = "read_line",
                                            !.response = <<>>]]
    /\ UNCHANGED <<storage_lock, owner>>
    /\ UNCHANGED <<storageVars, raftVars>>

\* read_line returns 0: process returns and the Connection is dropped
Disconnect(c) ==
    /\ conn[c].pc = "read_line"
    /\ conn' = [conn EXCEPT ![c] = Closed]
    /\ UNCHANGED <<storage_lock, owner>>
    /\ UNCHANGED <<storageVars, raftVars>>

(***************************************************************************)
(* The cache on its own: an AVLCache built with any capacity and ttl, under *)
(* any sequence of calls of its public interface.                          *)
(***************************************************************************)

\* the capacities and ttls the cache is built with
CacheCapacities == {1, 2, 3}

CacheTtls == {0, CacheTtl}

\* "a" .. "d"
CacheKeys == {<<97>>, <<98>>, <<99>>, <<100>>}

\* "a" .. "f": enough keys for a tree of height 4
WideKeys == CacheKeys \cup {<<101>>, <<102>>}

CacheValues == {<<65>>, <<66>>}

\* the time that passes between two calls, when some does
CacheStep == CacheTtl \div 2

\* AVLCache::put
AvlPut(key, value) ==
    /\ cache' = CachePut(cache, key, value, now)
    /\ last' = Call("cache.put", key, value, NoValue)
    /\ UNCHANGED <<strings, lists, stack, now, profile, nops, begun>>
    /\ UNCHANGED raftVars

\* AVLCache::get
AvlGet(key) ==
    LET r == CacheGet(cache, key, now)
    IN
    /\ cache' = r.cache
    /\ last' = Call("cache.get", key, <<>>, r.res)
    /\ UNCHANGED <<strings, lists, stack, now, profile, nops, begun>>
    /\ UNCHANGED raftVars

\* AVLCache::remove
AvlRemove(key) ==
    /\ cache' = CacheRemove(cache, key)
    /\ last' = Call("cache.remove", key, <<>>,
                    RemoveRecursive(cache.root, key).removed)
    /\ UNCHANGED <<strings, lists, stack, now, profile, nops, begun>>
    /\ UNCHANGED raftVars

\* AVLCache::clear
AvlClear ==
    /\ cache' = CacheClear(cache)
    /\ last' = Call("cache.clear", <<>>, <<>>, NoValue)
    /\ UNCHANGED <<strings, lists, stack, now, profile, nops, begun>>
    /\ UNCHANGED raftVars

\* time passes between two calls
AvlTick ==
    /\ now + CacheStep <= MaxNow
    /\ now' = now + CacheStep
    /\ last' = Call("cache.tick", <<>>, <<>>, NoValue)
    /\ UNCHANGED <<strings, lists, stack, cache, profile, nops, begun>>
    /\ UNCHANGED raftVars

Init ==
    /\ strings = EmptyMap
    /\ lists = EmptyMap
    /\ stack = <<>>
    /\ cache = CacheNew(CacheCapacity, CacheTtl)
    /\ now = 0
    /\ profile = "any"
    /\ last = Call("new", <<>>, NoValue, NoValue)
    /\ nops = 0
    /\ begun = <<>>
    /\ state = [node_id \in Nodes |-> RaftStateNew(node_id)]
    /\ log = [node_id \in Nodes |-> <<>>]
    /\ committed_index = [node_id \in Nodes |-> 0]
    /\ next_index = [node_id \in Nodes |-> EmptyMap]
    /\ match_index = [node_id \in Nodes |-> EmptyMap]
    /\ timer = [node_id \in Nodes |-> "idle"]
    /\ msgs = EmptyBag
    /\ elections = 0
    /\ delivered = 0
    /\ conn = [c \in Clients |-> NoConnection]
    /\ storage_lock = NoValue
    /\ owner = <<>>
    /\ locks = [name \in LockNames |-> NoValue]
    /\ task = [t \in Threads |-> TaskNew]
    /\ current_snapshot = [node_id \in Nodes |-> NoValue]
    /\ snapshot_file = [node_id \in Nodes |-> NoValue]
    /\ election_elapsed = 0
    /\ election_timeout = ElectionTimeoutMin
    /\ leader_gap = 0
    /\ applied_index = 0
    /\ applied = <<>>
    /\ last_snapshot_index = 0

Next ==
    \/ \E k \in RawKeys, v \in Values : Set(k, v) /\ UNCHANGED <<connVars, taskVars, snapVars, nodeVars>>
    \/ \E k \in ReadKeys : Get(k) /\ UNCHANGED <<connVars, taskVars, snapVars, nodeVars>>
    \/ \E k \in RawKeys : Del(k) /\ UNCHANGED <<connVars, taskVars, snapVars, nodeVars>>
    \/ \E k \in RawKeys : Incr(k) /\ UNCHANGED <<connVars, taskVars, snapVars, nodeVars>>
    \/ \E k \in RawKeys : Decr(k) /\ UNCHANGED <<connVars, taskVars, snapVars, nodeVars>>
    \/ \E k \in ListKeys, v \in ListValues : LPush(k, v) /\ UNCHANGED <<connVars, taskVars, snapVars, nodeVars>>
    \/ \E k \in ListKeys, v \in ListValues : RPush(k, v) /\ UNCHANGED <<connVars, taskVars, snapVars, nodeVars>>
    \/ \E k \in ListKeys : LPop(k) /\ UNCHANGED <<connVars, taskVars, snapVars, nodeVars>>
    \/ \E k \in ListKeys : RPop(k) /\ UNCHANGED <<connVars, taskVars, snapVars, nodeVars>>
    \/ StartTransaction /\ UNCHANGED <<connVars, taskVars, snapVars, nodeVars>>
    \/ CommitTransaction /\ UNCHANGED <<connVars, taskVars, snapVars, nodeVars>>
    \/ RollbackTransaction /\ UNCHANGED <<connVars, taskVars, snapVars, nodeVars>>
    \/ Tick /\ UNCHANGED <<connVars, taskVars, snapVars, nodeVars>>
    \/ \E file \in SnapshotFiles : LoadSnapshot(file) /\ UNCHANGED <<connVars, taskVars, snapVars, nodeVars>>

NextRaft ==
    \/ \E node_id \in Nodes : ElectionTimeout(node_id) /\ UNCHANGED <<connVars, taskVars, snapVars, nodeVars>>
    \/ \E node_id \in Nodes : SendVoteRequests(node_id) /\ UNCHANGED <<connVars, taskVars, snapVars, nodeVars>>
    \/ \E envelope \in BagToSet(msgs) :
          HandleVoteRequest(envelope) /\ UNCHANGED delivered /\ UNCHANGED <<connVars, taskVars, snapVars, nodeVars>>
    \/ \E envelope \in BagToSet(msgs) :
          HandleVoteResponse(envelope) /\ UNCHANGED delivered /\ UNCHANGED <<connVars, taskVars, snapVars, nodeVars>>
    \/ \E envelope \in BagToSet(msgs) :
          HandleHeartbeat(envelope) /\ UNCHANGED delivered /\ UNCHANGED <<connVars, taskVars, snapVars, nodeVars>>

NextNode ==
    \/ ElectionTimeout(Local) /\ UNCHANGED <<connVars, taskVars, snapVars, nodeVars>>
    \/ SendVoteRequests(Local) /\ UNCHANGED <<connVars, taskVars, snapVars, nodeVars>>
    \/ ProcessCommand(Local) /\ UNCHANGED <<connVars, taskVars, snapVars, nodeVars>>
    \/ \E envelope \in Arrivals(InputVoteRequests) :
          HandleVoteRequest(envelope) /\ Arrive /\ UNCHANGED <<connVars, taskVars, snapVars, nodeVars>>
    \/ \E envelope \in Arrivals(InputVoteResponses) :
          HandleVoteResponse(envelope) /\ Arrive /\ UNCHANGED <<connVars, taskVars, snapVars, nodeVars>>
    \/ \E envelope \in Arrivals(InputHeartbeats) :
          HandleHeartbeat(envelope) /\ Arrive /\ UNCHANGED <<connVars, taskVars, snapVars, nodeVars>>
    \/ \E envelope \in Arrivals(InputAppendEntries) :
          HandleAppendEntries(envelope) /\ Arrive /\ UNCHANGED <<connVars, taskVars, snapVars, nodeVars>>
    \/ \E envelope \in Arrivals(InputAppendEntriesResponses) :
          HandleAppendEntriesResponse(envelope) /\ Arrive /\ UNCHANGED <<connVars, taskVars, snapVars, nodeVars>>

vars == <<storageVars, raftVars, connVars, taskVars, snapVars, nodeVars>>

\* the storage engine under any sequence of calls
Spec == Init /\ [][Next]_vars

\* the Raft nodes under any interleaving of timeouts and deliveries
SpecRaft == Init /\ [][NextRaft]_vars

\* one node under any sequence of timeouts, commands and inbound messages
SpecNode == Init /\ [][NextNode]_vars

\* an AVLCache of any capacity and ttl under any sequence of calls
InitCache ==
    /\ cache \in {CacheNew(capacity, ttl) :
                    capacity \in CacheCapacities, ttl \in CacheTtls}
    /\ strings = EmptyMap
    /\ lists = EmptyMap
    /\ stack = <<>>
    /\ now = 0
    /\ profile = "any"
    /\ last = Call("new", <<>>, <<>>, NoValue)
    /\ nops = 0
    /\ begun = <<>>
    /\ state = [node_id \in Nodes |-> RaftStateNew(node_id)]
    /\ log = [node_id \in Nodes |-> <<>>]
    /\ committed_index = [node_id \in Nodes |-> 0]
    /\ next_index = [node_id \in Nodes |-> EmptyMap]
    /\ match_index = [node_id \in Nodes |-> EmptyMap]
    /\ timer = [node_id \in Nodes |-> "idle"]
    /\ msgs = EmptyBag
    /\ elections = 0
    /\ delivered = 0
    /\ conn = [c \in Clients |-> NoConnection]
    /\ storage_lock = NoValue
    /\ owner = <<>>
    /\ locks = [name \in LockNames |-> NoValue]
    /\ task = [t \in Threads |-> TaskNew]
    /\ current_snapshot = [node_id \in Nodes |-> NoValue]
    /\ snapshot_file = [node_id \in Nodes |-> NoValue]
    /\ election_elapsed = 0
    /\ election_timeout = ElectionTimeoutMin
    /\ leader_gap = 0
    /\ applied_index = 0
    /\ applied = <<>>
    /\ last_snapshot_index = 0

NextCache ==
    \/ \E key \in CacheKeys, value \in CacheValues :
          AvlPut(key, value) /\ UNCHANGED <<connVars, taskVars, snapVars, nodeVars>>
    \/ \E key \in CacheKeys : AvlGet(key) /\ UNCHANGED <<connVars, taskVars, snapVars, nodeVars>>
    \/ \E key \in CacheKeys : AvlRemove(key) /\ UNCHANGED <<connVars, taskVars, snapVars, nodeVars>>
    \/ AvlClear /\ UNCHANGED <<connVars, taskVars, snapVars, nodeVars>>
    \/ AvlTick /\ UNCHANGED <<connVars, taskVars, snapVars, nodeVars>>

SpecCache == InitCache /\ [][NextCache]_vars

\* the cache as MemoryStorage builds it, which never fills up, under any
\* sequence of calls made at one instant with one value
NextCacheWide ==
    \/ \E key \in WideKeys : AvlPut(key, <<65>>) /\ UNCHANGED <<connVars, taskVars, snapVars, nodeVars>>
    \/ \E key \in WideKeys : AvlGet(key) /\ UNCHANGED <<connVars, taskVars, snapVars, nodeVars>>
    \/ \E key \in WideKeys : AvlRemove(key) /\ UNCHANGED <<connVars, taskVars, snapVars, nodeVars>>
    \/ AvlClear /\ UNCHANGED <<connVars, taskVars, snapVars, nodeVars>>

SpecCacheWide == Init /\ [][NextCacheWide]_vars

\* the server with its clients: the workers interleave at every line read,
\* at the storage lock and at every command executed
NextServer ==
    \/ \E c \in Clients : Accept(c) /\ UNCHANGED <<taskVars, snapVars, nodeVars>>
    \/ \E c \in Clients, line \in InputLines : ReadLine(c, line) /\ UNCHANGED <<taskVars, snapVars, nodeVars>>
    \/ \E c \in Clients : Lock(c) /\ UNCHANGED <<taskVars, snapVars, nodeVars>>
    \/ \E c \in Clients : Execute(c) /\ UNCHANGED <<taskVars, snapVars, nodeVars>>
    \/ \E c \in Clients : Return(c) /\ UNCHANGED <<taskVars, snapVars, nodeVars>>
    \/ \E c \in Clients : Write(c) /\ UNCHANGED <<taskVars, snapVars, nodeVars>>
    \/ \E c \in Clients : Disconnect(c) /\ UNCHANGED <<taskVars, snapVars, nodeVars>>

SpecServer == Init /\ [][NextServer]_vars

\* a follower, its election timer and the messages of a leader
InitFollower ==
    /\ strings = EmptyMap
    /\ lists = EmptyMap
    /\ stack = <<>>
    /\ cache = CacheNew(CacheCapacity, CacheTtl)
    /\ now = 0
    /\ profile = "any"
    /\ last = Call("new", <<>>, NoValue, NoValue)
    /\ nops = 0
    /\ begun = <<>>
    /\ state = [node_id \in Nodes |-> RaftStateNew(node_id)]
    /\ log = [node_id \in Nodes |-> <<>>]
    /\ committed_index = [node_id \in Nodes |-> 0]
    /\ next_index = [node_id \in Nodes |-> EmptyMap]
    /\ match_index = [node_id \in Nodes |-> EmptyMap]
    /\ timer = [node_id \in Nodes |-> "idle"]
    /\ msgs = EmptyBag
    /\ elections = 0
    /\ delivered = 0
    /\ conn = [c \in Clients |-> NoConnection]
    /\ storage_lock = NoValue
    /\ owner = <<>>
    /\ locks = [name \in LockNames |-> NoValue]
    /\ task = [t \in Threads |-> TaskNew]
    /\ current_snapshot = [node_id \in Nodes |-> NoValue]
    /\ snapshot_file = [node_id \in Nodes |-> NoValue]
    /\ election_elapsed = 0
    /\ election_timeout \in ElectionTimeouts
    /\ leader_gap = 0
    /\ applied_index = 0
    /\ applied = <<>>
    /\ last_snapshot_index = 0

NextFollower ==
    \/ FollowerTick /\ UNCHANGED <<connVars, taskVars, snapVars>>
    \/ \E envelope \in Arrivals(InputAppendEntries) :
          FollowerAppendEntries(envelope) /\ UNCHANGED <<connVars, taskVars, snapVars>>
    \/ \E envelope \in Arrivals(InputHeartbeats) :
          FollowerHeartbeat(envelope) /\ UNCHANGED <<connVars, taskVars, snapVars>>
    \/ FollowerElectionTimeout /\ UNCHANGED <<connVars, taskVars, snapVars>>
    \/ FollowerSendVoteRequests /\ UNCHANGED <<connVars, taskVars, snapVars>>

SpecFollower == InitFollower /\ [][NextFollower]_vars

\* the node as follower and as leader, with its apply loop, its snapshot
\* manager and a client
NextApply ==
    \/ \E envelope \in Arrivals(InputAppendEntries) :
          NodeHandles(HandleAppendEntries(envelope))
    \/ \E envelope \in Arrivals(InputVoteResponses) :
          NodeHandles(HandleVoteResponse(envelope))
    \/ NodeElectionTimeout
    \/ SendVoteRequests(Local) /\ UNCHANGED <<connVars, taskVars, snapVars, nodeVars>>
    \/ ApplyCommittedEntries
    \/ CheckSnapshot
    \/ ClientCall("client") /\ UNCHANGED <<connVars, snapVars, nodeVars>>
    \/ WaitForCommit("client") /\ UNCHANGED <<connVars, snapVars, clockVars>>

SpecApply == Init /\ [][NextApply]_vars

\* the cluster under any interleaving of timeouts, commands and deliveries
NextCluster ==
    \/ \E node_id \in Nodes :
          ElectionTimeout(node_id) /\ UNCHANGED <<connVars, taskVars, snapVars, nodeVars>>
    \/ \E node_id \in Nodes :
          SendVoteRequests(node_id) /\ UNCHANGED <<connVars, taskVars, snapVars, nodeVars>>
    \/ \E node_id \in Nodes :
          ProcessCommand(node_id) /\ UNCHANGED <<connVars, taskVars, snapVars, nodeVars>>
    \/ \E node_id \in Nodes : \E peer_id \in Cluster(node_id) :
          ClusterReplicate(node_id, peer_id)
              /\ UNCHANGED <<connVars, taskVars, snapVars, nodeVars>>
    \/ \E envelope \in BagToSet(msgs) :
          ClusterHandle(envelope) /\ UNCHANGED <<connVars, taskVars, snapVars, nodeVars>>

SpecCluster == Init /\ [][NextCluster]_vars

\* the log stores of two nodes under any sequence of calls
NextLogStore ==
    \/ \E node_id \in StoreNodes : StoreAppend(node_id)
    \/ \E node_id \in StoreNodes, index \in 0..MaxLog : StoreCommit(node_id, index)
    \/ \E node_id \in StoreNodes : StoreSnapshot(node_id)
    \/ \E node_id \in StoreNodes, from \in StoreNodes : StoreRestore(node_id, from)

SpecLogStore == Init /\ [][NextLogStore]_vars

\* Local has won the election of LeaderTerm with the votes of its peers and
\* has run initialize_leader_state; nothing is committed
InitLeader ==
    /\ strings = EmptyMap
    /\ lists = EmptyMap
    /\ stack = <<>>
    /\ cache = CacheNew(CacheCapacity, CacheTtl)
    /\ now = 0
    /\ profile = "any"
    /\ last = Call("new", <<>>, NoValue, NoValue)
    /\ nops = 0
    /\ begun = <<>>
    /\ state = [node_id \in Nodes |->
                  LET st == [RaftStateNew(node_id) EXCEPT !.current_term = LeaderTerm - 1]
                  IN  IF node_id = Local
                      THEN BecomeLeader(ReceiveVote(BeginElection(st), TRUE))
                      ELSE StateHandleVoteRequest(st, Local, LeaderTerm, 0, 0).st]
    /\ \E old \in OldLogs :
          log = [node_id \in Nodes |-> IF node_id = "n3" THEN <<>> ELSE old]
    /\ committed_index = [node_id \in Nodes |-> 0]
    /\ next_index = [node_id \in Nodes |->
                       IF node_id = Local THEN InitialNextIndex(Local) ELSE EmptyMap]
    /\ match_index = [node_id \in Nodes |->
                        IF node_id = Local THEN InitialMatchIndex(Local) ELSE EmptyMap]
    /\ timer = [node_id \in Nodes |-> "idle"]
    /\ msgs = EmptyBag
    /\ elections = 0
    /\ delivered = 0
    /\ conn = [c \in Clients |-> NoConnection]
    /\ storage_lock = NoValue
    /\ owner = <<>>
    /\ locks = [name \in LockNames |-> NoValue]
    /\ task = [t \in Threads |-> TaskNew]
    /\ current_snapshot = [node_id \in Nodes |-> NoValue]
    /\ snapshot_file = [node_id \in Nodes |-> NoValue]
    /\ election_elapsed = 0
    /\ election_timeout = ElectionTimeoutMin
    /\ leader_gap = 0
    /\ applied_index = 0
    /\ applied = <<>>
    /\ last_snapshot_index = 0

\* the leader, its tasks and its peers, on a network that may lose messages
NextLeader ==
    \/ ClientCall("client") /\ UNCHANGED <<connVars, snapVars, nodeVars>>
    \/ WaitForCommit("client") /\ UNCHANGED <<connVars, snapVars, clockVars>>
    \/ TimerStep /\ UNCHANGED <<connVars, snapVars, nodeVars>>
    \/ \E t \in Cluster(Local) : SenderStep(t) /\ UNCHANGED <<connVars, snapVars, nodeVars>>
    \/ HandlerStep /\ UNCHANGED <<connVars, snapVars, nodeVars>>
    \/ PeerStep /\ UNCHANGED <<connVars, snapVars, nodeVars>>
    \/ \E t \in Cluster(Local) : SendFails(t) /\ UNCHANGED <<connVars, snapVars, nodeVars>>
    \/ \E envelope \in BagToSet(msgs) : Lose(envelope) /\ UNCHANGED <<connVars, snapVars, nodeVars>>

SpecLeader == InitLeader /\ [][NextLeader]_vars

\* the same cluster when every send returns Ok and no message is lost
NextAnswering ==
    \/ ClientCall("client") /\ UNCHANGED <<connVars, snapVars, nodeVars>>
    \/ WaitForCommit("client") /\ UNCHANGED <<connVars, snapVars, clockVars>>
    \/ TimerStep /\ UNCHANGED <<connVars, snapVars, nodeVars>>
    \/ \E t \in Cluster(Local) : SenderStep(t) /\ UNCHANGED <<connVars, snapVars, nodeVars>>
    \/ HandlerStep /\ UNCHANGED <<connVars, snapVars, nodeVars>>
    \/ PeerStep /\ UNCHANGED <<connVars, snapVars, nodeVars>>

\* every task of the runtime that can run does run, and every message that
\* waits is handled: the peers keep answering
Answering ==
    /\ WF_vars(WaitForCommit("client") /\ UNCHANGED <<connVars, snapVars, clockVars>>)
    /\ WF_vars(TimerStep /\ UNCHANGED <<connVars, snapVars, nodeVars>>)
    /\ \A t \in Cluster(Local) : WF_vars(SenderStep(t) /\ UNCHANGED <<connVars, snapVars, nodeVars>>)
    /\ WF_vars(HandlerStep /\ UNCHANGED <<connVars, snapVars, nodeVars>>)
    /\ WF_vars(PeerStep /\ UNCHANGED <<connVars, snapVars, nodeVars>>)

SpecLeaderLive == InitLeader /\ [][NextAnswering]_vars /\ Answering

\* one connection on its own: every line it can send, every step of its worker
NextConnection ==
    \/ Accept("c1") /\ UNCHANGED <<taskVars, snapVars, nodeVars>>
    \/ \E line \in InputLines : ReadLine("c1", line) /\ UNCHANGED <<taskVars, snapVars, nodeVars>>
    \/ Lock("c1") /\ UNCHANGED <<taskVars, snapVars, nodeVars>>
    \/ Execute("c1") /\ UNCHANGED <<taskVars, snapVars, nodeVars>>
    \/ Return("c1") /\ UNCHANGED <<taskVars, snapVars, nodeVars>>
    \/ Write("c1") /\ UNCHANGED <<taskVars, snapVars, nodeVars>>
    \/ Disconnect("c1") /\ UNCHANGED <<taskVars, snapVars, nodeVars>>

SpecConnection == Init /\ [][NextConnection]_vars

(***************************************************************************)
(* Properties of the storage engine.                                       *)
(***************************************************************************)

\* the raw keys of the model
AllKeys == RawKeys \cup ReadKeys \cup ListKeys

\* the normalized keys of the model
Keys == {ToLowercase(r) : r \in AllKeys}

\* C1: a rollback_transaction that succeeds leaves the base string table, the
\* base list table and every remaining layer as they were when the matching
\* start_transaction was called, whatever calls were made in between.
C1_RollbackRestores ==
    [][(last'.op = "discard" /\ Depth > 0) =>
          /\ strings' = begun[Len(begun)].strings
          /\ lists' = begun[Len(begun)].lists
          /\ stack' = begun[Len(begun)].stack]_vars

\* a rollback has just undone a set and an overflowing incr, both made
\* inside the transaction
C1_Witness ==
    /\ last.op = "discard"
    /\ last.res = NoValue
    /\ nops = 2
    /\ profile # "any"
    /\ Depth = 0
    /\ strings = EmptyMap

\* C2: inside a transaction, a get of a key whose topmost mentioning layer
\* holds a tombstone returns absent.
C2_TombstoneHides ==
    [][(last'.op = "get" /\ Depth > 0) =>
          LET key == ToLowercase(last'.key)
              mentions == {i \in 1..Depth : key \in DOMAIN stack[i].strings}
          IN  (mentions # {} /\ \A i \in mentions :
                   (\A j \in mentions : j <= i) => stack[i].strings[key] = NoValue)
              => last'.res = NoValue]_vars

\* C3: a commit_transaction that empties the stack writes every value of the
\* popped layer to the base tables, removes every tombstoned key, leaves the
\* other keys alone, and get and llen then return the committed values.
C3_CommitVisible ==
    [][(last'.op = "exec" /\ Depth = 1) =>
          /\ \A key \in Keys \cup DOMAIN strings \cup DOMAIN strings' :
                IF key \in DOMAIN Top.strings
                THEN MapGet(strings', key) = Top.strings[key]
                ELSE MapGet(strings', key) = MapGet(strings, key)
          /\ \A key \in Keys \cup DOMAIN lists \cup DOMAIN lists' :
                IF key \in DOMAIN Top.lists
                THEN MapGet(lists', key) = Top.lists[key]
                ELSE MapGet(lists', key) = MapGet(lists, key)
          /\ \A rawKey \in AllKeys :
                LET key == ToLowercase(rawKey)
                    value == IF key \in DOMAIN Top.strings THEN Top.strings[key]
                             ELSE MapGet(strings, key)
                    list == IF key \in DOMAIN Top.lists THEN Top.lists[key]
                            ELSE MapGet(lists, key)
                IN  /\ GetResult(rawKey)' = value
                    /\ LLenResult(rawKey)' =
                          IF list = NoValue THEN 0 ELSE Len(list.some)]_vars

\* an outermost commit has removed a key of the snapshot from both base tables
C3_Witness ==
    /\ last.op = "exec"
    /\ last.res = Some(<<StrOK, StrOK>>)
    /\ Depth = 0
    /\ nops = 1
    /\ strings = EmptyMap
    /\ lists = EmptyMap

\* C4: a commit_transaction that leaves a layer on the stack does not touch
\* the base tables, and the new top layer holds the entries of the popped
\* layer together with its own entries for the keys the popped layer does not
\* mention.
C4_NestedCommitFolds ==
    [][(last'.op = "exec" /\ Depth > 1) =>
          /\ strings' = strings
          /\ lists' = lists
          /\ Len(stack') = Depth - 1
          /\ LET parent == stack[Depth - 1]
                 merged == stack'[Depth - 1]
             IN  /\ DOMAIN merged.strings = DOMAIN parent.strings \cup DOMAIN Top.strings
                 /\ DOMAIN merged.lists = DOMAIN parent.lists \cup DOMAIN Top.lists
                 /\ \A key \in DOMAIN merged.strings :
                       merged.strings[key] =
                          IF key \in DOMAIN Top.strings THEN Top.strings[key]
                          ELSE parent.strings[key]
                 /\ \A key \in DOMAIN merged.lists :
                       merged.lists[key] =
                          IF key \in DOMAIN Top.lists THEN Top.lists[key]
                          ELSE parent.lists[key]]_vars

\* a nested commit has folded the two tombstones of a del into a parent
\* that held a value for another key
C4_Witness ==
    /\ last.op = "exec"
    /\ last.res = Some(<<StrQueued, StrQueued>>)
    /\ Depth = 1
    /\ nops = 2
    /\ DOMAIN Top.strings = {<<106>>, <<107>>}
    /\ Top.strings[<<107>>] = NoValue
    /\ Top.strings[<<106>>] # NoValue
    /\ DOMAIN Top.lists = {<<107>>}
    /\ Top.lists[<<107>>] = NoValue

\* C5: with no transaction open, after del(k) get(k) returns absent and
\* llen(k) returns 0, and del reports success iff one of the base tables held
\* the key.
C5_DelPurgesBoth ==
    [][(last'.op = "del" /\ Depth = 0) =>
          \A rawKey \in RawKeys : rawKey = last'.key =>
              LET key == ToLowercase(rawKey)
              IN  /\ GetResult(rawKey)' = NoValue
                  /\ LLenResult(rawKey)' = 0
                  /\ last'.res = (key \in DOMAIN strings \/ key \in DOMAIN lists)]_vars

\* C6: with no transaction open, right after set(K, v) a get of any key with
\* the ASCII-lowercase form of K returns v.
C6_SetGetRoundTrip ==
    LET AsciiLower(s) ==
            [i \in 1..Len(s) |-> IF s[i] \in 65..90 THEN s[i] + 32 ELSE s[i]]
    IN  (last.op = "set" /\ Depth = 0) =>
            \A rawKey \in AllKeys :
                AsciiLower(rawKey) = AsciiLower(last.key)
                    => GetResult(rawKey) = last.arg

\* set("K", "A") has just been called: get("k") returns "A"
C6_Witness ==
    /\ last.op = "set"
    /\ last.key = <<75>>
    /\ last.arg = Some(<<65>>)
    /\ Depth = 0
    /\ nops = 2
    /\ GetResult(<<107>>) = Some(<<65>>)

\* C7: with no transaction open, incr returns v + 1 and decr returns v - 1
\* and stores it in decimal, v being the integer stored at the key, or 0 when
\* the key is absent or does not hold an integer.
C7_IncrDecrByOne ==
    [][(last'.op \in {"incr", "decr"} /\ Depth = 0) =>
          LET key == ToLowercase(last'.key)
              v == IF key \in DOMAIN strings THEN ParseOrZero(strings[key])
                   ELSE I64Zero
              expected == IF last'.op = "incr" THEN IntSucc(v) ELSE IntPred(v)
          IN  /\ last'.res = expected
              /\ MapGet(strings', key) = Some(I64ToString(expected))]_vars

\* C8: with no transaction open, lpush and rpush insert at the front and at
\* the back and return the new length, lpop and rpop remove and return the
\* front and the back element or return absent on an empty or missing list,
\* and llen moves by one with every push and every successful pop.
C8_ListIsDeque ==
    [][(last'.op \in {"lpush", "rpush", "lpop", "rpop"} /\ Depth = 0) =>
          \A rawKey \in RawKeys : rawKey = last'.key =>
          LET key == ToLowercase(rawKey)
              old == IF key \in DOMAIN lists THEN lists[key] ELSE <<>>
              new == lists'[key]
              n == Len(old)
          IN  /\ key \in DOMAIN lists'
              /\ LLenResult(rawKey) = n
              /\ LLenResult(rawKey)' = Len(new)
              /\ CASE last'.op = "lpush" ->
                        /\ new = <<last'.arg.some>> \o old
                        /\ last'.res = n + 1
                   [] last'.op = "rpush" ->
                        /\ new = old \o <<last'.arg.some>>
                        /\ last'.res = n + 1
                   [] last'.op = "lpop" ->
                        IF n = 0 THEN new = <<>> /\ last'.res = NoValue
                        ELSE /\ last'.res = Some(old[1])
                             /\ new = [i \in 1..(n - 1) |-> old[i + 1]]
                   [] last'.op = "rpop" ->
                        IF n = 0 THEN new = <<>> /\ last'.res = NoValue
                        ELSE /\ last'.res = Some(old[n])
                             /\ new = [i \in 1..(n - 1) |-> old[i]]]_vars

\* rpush of "c" on the list [A, b] of the snapshot, then rpop returns "c" and
\* leaves [A, b]
C8_Witness ==
    /\ last.op = "rpop"
    /\ last.res = Some(<<99>>)
    /\ Depth = 0
    /\ nops = 2
    /\ <<107>> \in DOMAIN lists
    /\ lists[<<107>>] = << <<65>>, <<98>> >>

(***************************************************************************)
(* Properties of the Raft election.                                        *)
(***************************************************************************)

C10_OneVotePerTerm ==
    [][\A envelope \in BagToSet(msgs) :
          LET node_id == envelope.to
              request == envelope.message
              st == state[node_id]
          IN  (/\ request.type = "RequestVote"
               /\ CopiesIn(envelope, msgs') < CopiesIn(envelope, msgs)
               /\ request.term = st.current_term
               /\ st.voted_for # NoValue
               /\ st.voted_for # Some(request.candidate_id))
              => LET refusal == Envelope(request.candidate_id,
                                    RequestVoteResponse(st.current_term, FALSE))
                     grant == Envelope(request.candidate_id,
                                  RequestVoteResponse(st.current_term, TRUE))
                 IN  /\ state'[node_id].voted_for = st.voted_for
                     /\ state'[node_id].current_term = st.current_term
                     /\ CopiesIn(refusal, msgs') = CopiesIn(refusal, msgs) + 1
                     /\ CopiesIn(grant, msgs') = CopiesIn(grant, msgs)]_vars

\* two candidates of term 1: the third node has voted for one of them and
\* its refusal is on its way to the other
C10_Witness ==
    \E voter, a, b \in Nodes :
        /\ voter # a /\ voter # b /\ a # b
        /\ state[voter].current_term = 1
        /\ state[voter].voted_for = Some(a)
        /\ state[a].role = "Candidate"
        /\ state[b].role = "Candidate"
        /\ state[b].current_term = 1
        /\ state[b].voted_for = Some(b)
        /\ state[a].voted_for = Some(a)
        /\ CopiesIn(Envelope(b, RequestVoteResponse(1, FALSE)), msgs) = 1
        /\ CopiesIn(Envelope(voter, RequestVote(1, b, 0, 0)), msgs) = 0
        /\ CopiesIn(Envelope(a, RequestVote(1, b, 0, 0)), msgs) = 1

(***************************************************************************)
(* Properties of log replication, on one node against its network.         *)
(***************************************************************************)

\* C11: no step of a node removes or replaces a log entry at an index up to
\* its committed_index.
C11_CommittedNeverTruncated ==
    [][\A node_id \in Nodes :
          \A index \in 1..committed_index[node_id] :
              /\ index <= Len(log[node_id])
              /\ index <= Len(log'[node_id])
              /\ log'[node_id][index] = log[node_id][index]]_vars

\* C12: no step of a node lowers its committed_index.
C12_CommitMonotonic ==
    [][\A node_id \in Nodes :
          committed_index'[node_id] >= committed_index[node_id]]_vars

\* C13: no step of a node lowers its current_term.
C13_TermMonotonic ==
    [][\A node_id \in Nodes :
          state'[node_id].current_term >= state[node_id].current_term]_vars

\* a candidate of term 2 has answered an AppendEntries of term 1 with its own
\* term and is still a candidate of term 2
C13_Witness ==
    /\ state[Local].role = "Candidate"
    /\ state[Local].current_term = 2
    /\ elections = 2
    /\ delivered = 1
    /\ CopiesIn(Envelope("n2", AppendEntriesResponse(2, FALSE, 0)), msgs) = 1

\* the step is handle_append_entries on this request, and the request is not
\* of a lower term than the node
HandlesAppendEntries(envelope) ==
    /\ envelope.message.term >= state[envelope.to].current_term
    /\ HandleAppendEntries(envelope)

\* what C14 says of a step that handles `request`: the answer is a success
\* exactly when the log holds the entry before the new ones with the term the
\* leader names, and a refusal leaves the log store alone
LogMatchChecked(node_id, request) ==
    LET prev == request.prev_log_index
        matches == \/ prev = 0
                   \/ /\ prev <= Len(log[node_id])
                      /\ log[node_id][prev].term = request.prev_log_term
        success == Envelope(request.leader_id,
                       AppendEntriesResponse(request.term, TRUE,
                                             prev + Len(request.entries)))
        refusal == Envelope(request.leader_id,
                       AppendEntriesResponse(request.term, FALSE, 0))
    IN  IF matches
        THEN /\ CopiesIn(success, msgs') = CopiesIn(success, msgs) + 1
             /\ CopiesIn(refusal, msgs') = CopiesIn(refusal, msgs)
        ELSE /\ CopiesIn(refusal, msgs') = CopiesIn(refusal, msgs) + 1
             /\ CopiesIn(success, msgs') = CopiesIn(success, msgs)
             /\ log'[node_id] = log[node_id]
             /\ committed_index'[node_id] = committed_index[node_id]

C15_SizeBounded ==
    /\ cache.size <= cache.capacity
    /\ cache.size = TreeSize(cache.root)

\* a full cache of capacity 3 after a put that evicted "a"
C15_Witness ==
    /\ last.op = "cache.put"
    /\ cache.capacity = 3
    /\ cache.size = 3
    /\ TreeKeys(cache.root) = {<<98>>, <<99>>, <<100>>}

\* the height of a tree as its shape gives it: 0 for a null child
RECURSIVE ActualHeight(_)
ActualHeight(node) ==
    IF node = Nil THEN 0
    ELSE 1 + Max2(ActualHeight(node.left), ActualHeight(node.right))

\* the heights of the two subtrees of every node differ by at most 1
RECURSIVE HeightBalanced(_)
HeightBalanced(node) ==
    \/ node = Nil
    \/ /\ ActualHeight(node.left) - ActualHeight(node.right) \in {-1, 0, 1}
       /\ HeightBalanced(node.left)
       /\ HeightBalanced(node.right)

\* C16: after every operation of the cache, removals of a node with two
\* children and capacity evictions included, the actual heights of the left
\* and right subtrees of every node of the tree differ by at most 1.
C16_HeightBalanced == HeightBalanced(cache.root)

\* the entries of the cache under a key that are younger than ttl
FreshEntries(key) ==
    {e \in TreeEntries(cache.root) : e.key = key /\ now - e.timestamp < cache.ttl}

\* C17: get returns a value only when the entry is present and the time
\* since its timestamp is strictly less than ttl, and then it is the value of
\* the entry; for a present but expired entry get removes it, size decreases
\* by one, and get returns absent; with ttl = 0 every get returns absent.
C17_Freshness ==
    [][\A key \in CacheKeys :
          AvlGet(key) =>
              /\ last'.res # NoValue <=> FreshEntries(key) # {}
              /\ \A e \in FreshEntries(key) : last'.res = Some(e.value)
              /\ key \in TreeKeys(cache.root) /\ FreshEntries(key) = {} =>
                     /\ key \notin TreeKeys(cache'.root)
                     /\ cache'.size = cache.size - 1
                     /\ last'.res = NoValue
              /\ cache.ttl = 0 => last'.res = NoValue]_vars

\* a get of "a" that found nothing fresh, one ttl after the cache was built,
\* which leaves the entry of "b" written at time 0 in the tree
C17_Witness ==
    /\ last = Call("cache.get", <<97>>, <<>>, NoValue)
    /\ cache.ttl = CacheTtl
    /\ now = CacheTtl
    /\ cache.size = 1
    /\ TreeEntries(cache.root) = {[key |-> <<98>>, value |-> <<66>>, timestamp |-> 0]}

\* the keys and values held by a tree
KeyValues(node) == {[key |-> e.key, value |-> e.value] : e \in TreeEntries(node)}

\* the smallest of a non-empty set of keys
MinKey(keys) == CHOOSE m \in keys : \A k \in keys : k = m \/ StrLess(m, k)

C19_DisconnectRollsBack ==
    [][\A c \in Clients :
          Disconnect(c) /\ conn[c].transaction_stack # <<>> =>
              \A i \in 1..Len(stack') : owner'[i] # c]_vars

\* a worker that has executed a part of its commands and not the rest
MidBatch(c) == conn[c].results # <<>> /\ conn[c].pending # <<>>

\* C20: commands are strictly serialized across clients: every command runs
\* while its worker holds the storage lock, and no command of another client
\* is executed between two commands of the same EXEC batch.
C20_Serialized ==
    [][\A c \in Clients :
          Execute(c) =>
              /\ storage_lock = Some(c)
              /\ \A d \in Clients \ {c} : conn[d].pc # "locked" /\ ~MidBatch(d)]_vars

\* c1 has executed the first command of a batch of two while c2 waits for the
\* storage with a command of its own
C20_Witness ==
    /\ MidBatch("c1")
    /\ conn["c1"].command.name = "Exec"
    /\ storage_lock = Some("c1")
    /\ conn["c2"].pc = "lock"
    /\ conn["c2"].pending # <<>>

\* the commands of a block that the client sent: the parser lowercases the
\* keys, so that no line of a client has the key of a RESULT entry
Received(commands) == SelectSeq(commands, LAMBDA x : x.key \notin ResultKeys)

\* result is what the executor answers to command
IsResultOf(command, result) ==
    CASE command.name = "Set" -> result = StrOK
      [] command.name = "Get" -> result \in {StrNil} \cup LineValues
      [] OTHER -> FALSE

\* a line inside a MULTI that is none of MULTI, EXEC, DISCARD is answered
\* QUEUED, joins the innermost block at its end and leaves the storage as it is
QueuedNotExecuted(c) ==
    \A line \in InputLines :
        /\ conn[c].pc = "read_line"
        /\ conn[c].transaction_stack # <<>>
        /\ Parse(line).name \notin {"Multi", "Exec", "Discard"}
        /\ ReadLine(c, line)
        => LET blocks == conn[c].transaction_stack
               depth == Len(blocks)
           IN  /\ conn'[c].pc = "write"
               /\ Lines(conn'[c].response) = <<StrQueued>>
               /\ conn'[c].transaction_stack =
                      [blocks EXCEPT ![depth] = Append(@, Parse(line))]
               /\ UNCHANGED storageVars

\* a SET or GET reaches the storage either outside every MULTI or in the EXEC
\* that popped its block, and that EXEC runs the block from its first entry
\* to its last
ExecutedInOrder(c) ==
    /\ conn[c].pc = "locked"
    /\ conn[c].pending # <<>>
    /\ Head(conn[c].pending).name \in {"Set", "Get"}
    /\ Execute(c)
    =>  \/ conn[c].command.name \notin {"Exec"} /\ conn[c].transaction_stack = <<>>
        \/ /\ conn[c].command.name = "Exec"
           /\ Len(conn[c].results) < Len(conn[c].commands)
           /\ Head(conn[c].pending) = conn[c].commands[Len(conn[c].results) + 1]
           /\ \A d \in Clients : conn'[d].transaction_stack = conn[d].transaction_stack

\* the response of an EXEC is the results of the entries of its block, one
\* line each and in their order
ResultPerEntry(c) ==
    /\ conn[c].pc = "locked"
    /\ conn[c].command.name = "Exec"
    /\ Return(c)
    =>  /\ Len(conn[c].results) = Len(conn[c].commands)
        /\ \A i \in 1..Len(conn[c].commands) :
              IsResultOf(conn[c].commands[i], conn[c].results[i])
        /\ Lines(conn'[c].response) = conn[c].results

C22_WithoutMulti ==
    [][\A c \in Clients, name \in {"EXEC", "DISCARD"} :
          /\ conn[c].pc = "read_line"
          /\ conn[c].transaction_stack = <<>>
          /\ ReadLine(c, Command(name, <<>>, <<>>))
          =>  /\ conn'[c].pc = "write"
              /\ Lines(conn'[c].response) =
                     <<IF name = "EXEC" THEN StrExecWithoutMulti
                       ELSE StrDiscardWithoutMulti>>
              /\ conn'[c].transaction_stack = <<>>
              /\ conn'[c].pending = <<>>
              /\ UNCHANGED <<storageVars, storage_lock, owner>>]_vars

\* a connection that has written a key and is about to answer a DISCARD
\* that no MULTI preceded
C22_Witness ==
    \E c \in Clients :
        /\ conn[c].pc = "write"
        /\ conn[c].response = StrDiscardWithoutMulti
        /\ conn[c].transaction_stack = <<>>
        /\ strings # EmptyMap
        /\ stack = <<>>

(***************************************************************************)
(* Properties of the leader.                                               *)
(***************************************************************************)

\* process_command appends one entry, at last_log_index + 1 and with the
\* current term
AppendsOneEntry ==
    [][ClientCall("client") =>
          /\ Len(log'[Local]) = Len(log[Local]) + 1
          /\ SubSeq(log'[Local], 1, Len(log[Local])) = log[Local]
          /\ log'[Local][Len(log'[Local])] =
                 LogEntry(state[Local].current_term, LastIndex(Local) + 1)]_vars

\* C23: a command submitted with process_command to the leader is appended
\* as one entry at last_log_index + 1 with current_term, and where the nodes
\* keep answering the entry is eventually committed, so that the call
\* returns the response of the state machine and not ReplicationTimeout.
C23_CommandCommits ==
    /\ AppendsOneEntry
    /\ (task["client"].pc = "wait_for_commit") ~> (task["client"].result = "Ok")

(***************************************************************************)
(* Properties of the storage engine inside nested transactions.            *)
(***************************************************************************)

\* the entry of the topmost layer among the first i that mentions the key
\* in the given table ("strings" or "lists"), NoValue when none does
RECURSIVE Mention(_, _, _, _)
Mention(stk, i, table, key) ==
    IF i = 0 THEN NoValue
    ELSE IF key \in DOMAIN stk[i][table] THEN Some(stk[i][table][key])
    ELSE Mention(stk, i - 1, table, key)

\* the string seen through the stack: what the topmost layer that mentions
\* the key holds, else what the base table holds
SeenString(key) ==
    LET mention == Mention(stack, Depth, "strings", key)
    IN  IF mention # NoValue THEN mention.some ELSE MapGet(strings, key)

\* the number that incr and decr start from when they read through the stack
SeenNumber(key) ==
    ParseOrZero(IF SeenString(key) = NoValue THEN StrZero ELSE SeenString(key).some)

\* the layers below the top one
LowerLayers(stk) == SubSeq(stk, 1, Len(stk) - 1)

\* C25: inside a transaction at any depth, incr and decr read the key
\* through the stack (topmost layer that mentions it, else the base table,
\* else "0") and write the result into the top layer only, so that with
\* k = n in an enclosing layer incr(k) returns n + 1; the lower layers and
\* the base table stay as they were.
C25_IncrThroughStack ==
    [][\A rawKey \in RawKeys :
          LET key == ToLowercase(rawKey)
              num == SeenNumber(key)
          IN  /\ (/\ Depth > 0
                  /\ last'.op = "incr"
                  /\ num # I64Max
                  /\ Incr(rawKey)) =>
                     /\ last'.res = IntSucc(num)
                     /\ stack'[Depth].strings[key] = Some(I64ToString(IntSucc(num)))
                     /\ LowerLayers(stack') = LowerLayers(stack)
                     /\ strings' = strings
              /\ (/\ Depth > 0
                  /\ last'.op = "decr"
                  /\ num # I64Min
                  /\ Decr(rawKey)) =>
                     /\ last'.res = IntPred(num)
                     /\ stack'[Depth].strings[key] = Some(I64ToString(IntPred(num)))
                     /\ LowerLayers(stack') = LowerLayers(stack)
                     /\ strings' = strings]_vars

\* the list seen through the stack: the list of the nearest layer that has
\* the key, no list when that layer holds a tombstone, else the list of the
\* base table
SeenList(key) ==
    LET mention == Mention(stack, Depth, "lists", key)
        found == IF mention # NoValue THEN mention.some ELSE MapGet(lists, key)
    IN  IF found = NoValue THEN <<>> ELSE found.some

\* a push or pop inside a transaction has left the given list in the top
\* layer and has touched neither the lower layers nor the base table
TopListIs(key, list) ==
    /\ stack'[Depth].lists[key] = Some(list)
    /\ LowerLayers(stack') = LowerLayers(stack)
    /\ lists' = lists

\* llen returns the length of the list seen through the stack
LLenThroughStack ==
    \A rawKey \in ListKeys :
        Depth > 0 => LLenResult(rawKey) = Len(SeenList(ToLowercase(rawKey)))

\* lpush, rpush, lpop and rpop work on the list seen through the stack
PushPopThroughStack ==
    \A rawKey \in ListKeys :
        LET key == ToLowercase(rawKey)
            seen == SeenList(key)
        IN  /\ \A value \in ListValues :
                  (Depth > 0 /\ last'.op = "lpush" /\ LPush(rawKey, value)) =>
                      /\ last'.res = Len(seen) + 1
                      /\ TopListIs(key, PushFront(seen, value))
            /\ \A value \in ListValues :
                  (Depth > 0 /\ last'.op = "rpush" /\ RPush(rawKey, value)) =>
                      /\ last'.res = Len(seen) + 1
                      /\ TopListIs(key, PushBack(seen, value))
            /\ (Depth > 0 /\ last'.op = "lpop" /\ LPop(rawKey)) =>
                      /\ last'.res = PopFront(seen).res
                      /\ TopListIs(key, PopFront(seen).list)
            /\ (Depth > 0 /\ last'.op = "rpop" /\ RPop(rawKey)) =>
                      /\ last'.res = PopBack(seen).res
                      /\ TopListIs(key, PopBack(seen).list)

\* C26: inside a transaction at any depth, lpush, rpush, lpop, rpop and llen
\* operate on the list seen through the stack: the nearest layer that has
\* the key decides (its list, or no list when it holds a tombstone), else
\* the base table; the first touch copies that list into the top layer, and
\* the lower layers and the base table stay unchanged until commit.
C26_ListsThroughStack ==
    /\ []LLenThroughStack
    /\ [][PushPopThroughStack]_vars

\* C27: commit_transaction returns one result per overlay entry of the
\* popped layer: at depth 1 "OK" for every string entry, then for every
\* list entry the length of the list or, for a tombstone, "OK"; at depth
\* above 1 one "QUEUED" per merged entry; so the number of results is the
\* number of string entries plus the number of list entries of that layer.
C27_CommitResults ==
    [][(Depth > 0 /\ last'.op = "exec" /\ CommitTransaction) =>
          LET layer == Top
              results == last'.res.some
              n_strings == Cardinality(DOMAIN layer.strings)
              n_lists == Cardinality(DOMAIN layer.lists)
          IN  /\ Len(results) = n_strings + n_lists
              /\ IF Depth = 1
                 THEN /\ \A i \in 1..n_strings : results[i] = StrOK
                      /\ \E order \in Orderings(DOMAIN layer.lists) :
                            \A i \in 1..n_lists :
                                results[n_strings + i] =
                                    IF layer.lists[order[i]] = NoValue THEN StrOK
                                    ELSE UsizeToString(Len(layer.lists[order[i]].some))
                 ELSE \A i \in 1..Len(results) : results[i] = StrQueued]_vars

\* the outermost commit of a layer with one string and one list of one
\* element has returned
C27_Witness ==
    /\ last = Call("exec", <<>>, NoValue, Some(<<StrOK, UsizeToString(1)>>))
    /\ Depth = 0
    /\ strings # EmptyMap
    /\ lists # EmptyMap

(***************************************************************************)
(* Properties of voting and of the indexes the leader keeps.               *)
(***************************************************************************)

\* the log that a RequestVote describes is at least as up-to-date as the
\* log store of the node
UpToDate(request, node_id) ==
    \/ request.last_log_term > LastTerm(node_id)
    \/ /\ request.last_log_term = LastTerm(node_id)
       /\ request.last_log_index >= LastIndex(node_id)

\* C29: a node grants its vote only to a candidate whose log is at least as
\* up-to-date as the log store of the voter, compared by the term and then
\* the index of the last entry; a voter whose log store holds newer entries
\* refuses.
C29_VoteOnlyUpToDate ==
    [][\A request \in InputVoteRequests :
          (/\ HandleVoteRequest(Envelope(Local, request))
           /\ StateHandleVoteRequest(state[Local], request.candidate_id, request.term,
                  request.last_log_index, request.last_log_term).granted) =>
              UpToDate(request, Local)]_vars

\* the nodes whose log store holds, at the index, the entry of the leader
StoredOn(logs, index) ==
    {node_id \in Nodes :
        /\ Len(logs[node_id]) >= index
        /\ logs[node_id][index] = logs[Local][index]}

\* the leader moves its committed_index only to an index whose entry is
\* stored on a strict majority of the nodes
CommitsOnMajority ==
    [][committed_index'[Local] > committed_index[Local] =>
          2 * Cardinality(StoredOn(log', committed_index'[Local])) > Cardinality(Nodes)]_vars

\* the index a table of the leader keeps for a node, 0 when it keeps none
IndexOf(table, node_id) ==
    IF node_id \in DOMAIN table[Local] THEN table[Local][node_id] ELSE 0

\* a successful AppendEntriesResponse is being recorded in the tables
RecordsResponse ==
    /\ task["handler"].pc = "response_match_index"
    /\ task["handler"].request.success
    /\ HandlerLockMatchIndex("handler")

\* the indexes kept for a peer go up only while a successful response is
\* being recorded
RaisedOnResponse ==
    [][\A peer_id \in Cluster(Local) :
          (\/ IndexOf(match_index, peer_id)' > IndexOf(match_index, peer_id)
           \/ IndexOf(next_index, peer_id)' > IndexOf(next_index, peer_id)) =>
              RecordsResponse]_vars

\* C28: the leader advances committed_index to N only if entry N is stored
\* on a strict majority of the nodes, and raises match_index and next_index
\* of a peer only when a successful AppendEntriesResponse of that peer is
\* handled, never merely because an AppendEntries was sent.
C28_CommitNeedsAcknowledgement ==
    /\ CommitsOnMajority
    /\ RaisedOnResponse

\* C30: on a successful AppendEntriesResponse with match_index m from a
\* follower, the leader sets match_index of that follower to m and its
\* next_index to m + 1 and changes the entries of no other node, creating
\* none for itself, before it recomputes the commit index.
C30_ResponseUpdatesFollower ==
    [][RecordsResponse =>
          LET m == task["handler"].request.match_index
          IN  /\ Local \notin DOMAIN match_index'[Local]
              /\ Local \notin DOMAIN next_index'[Local]
              /\ \E follower_id \in Cluster(Local) :
                    /\ match_index'[Local] = MapInsert(match_index[Local], follower_id, m)
                    /\ next_index'[Local] = MapInsert(next_index[Local], follower_id, m + 1)
              /\ task'["handler"].pc = "update_commit_index"
              /\ committed_index' = committed_index]_vars

\* C32: on a leader, in every reachable state and for every peer,
\* next_index of the peer is at least 1 and match_index of the peer is below
\* it; the back-off after a failed response or a failed send stops at 1, so
\* that next_index - 1 in replicate_logs never underflows.
C32_NextIndexBounds ==
    state[Local].role = "Leader" =>
        \A peer_id \in Cluster(Local) :
            /\ next_index[Local][peer_id] >= 1
            /\ match_index[Local][peer_id] < next_index[Local][peer_id]

\* the place of each Mutex in the order state, next_index, match_index
LockRank(name) ==
    CASE name = "state" -> 1
      [] name = "next_index" -> 2
      [] name = "match_index" -> 3

\* the Mutex whose lock().await the task stands at, if any
Wanted(t) ==
    CASE task[t].pc = "update_commit_index" -> Some("state")
      [] task[t].pc \in {"lock_next_index", "response_next_index", "response_failed"} ->
            Some("next_index")
      [] task[t].pc \in {"lock_match_index", "response_match_index",
                         "update_commit_index_match"} -> Some("match_index")
      [] OTHER -> NoValue

\* the guards the task holds
Held(t) == {name \in LockNames : locks[name] = Some(t)}

\* C33: every task of a Raft node acquires the locks in the order state,
\* next_index, match_index, log_store: no task requests the state lock
\* while it holds next_index or match_index, and no task requests a lock it
\* already holds.
C33_LockOrder ==
    \A t \in Threads :
        Wanted(t) # NoValue =>
            \A name \in Held(t) : LockRank(name) < LockRank(Wanted(t).some)

(***************************************************************************)
(* Properties of the election timer of a follower.                         *)
(***************************************************************************)

\* an AppendEntries with term >= current_term leaves the node a Follower
\* with its election timer reset
AppendEntriesResetsTimer ==
    [][\A envelope \in Arrivals(InputAppendEntries) :
          (leader_gap' = 0 /\ FollowerAppendEntries(envelope)) =>
              /\ state'[Local].role = "Follower"
              /\ election_elapsed' = 0]_vars

\* C31: a follower that handles an AppendEntries with term >= current_term
\* becomes Follower and resets its election timer, so that a follower that
\* keeps receiving AppendEntries of the current leader at intervals shorter
\* than its election timeout never starts an election.
C31_HeartbeatsHoldElections ==
    /\ AppendEntriesResetsTimer
    /\ [][~FollowerElectionTimeout]_vars

(***************************************************************************)
(* Properties of the storage engine with its cache                         *)
(***************************************************************************)

\* C36: after any sequence of storage operations, with or without
\* transactions, get(k) returns what an uncached read of k returns: what
\* the topmost layer that mentions k holds, else what the base string table
\* holds
C36_CacheCoherent == \A key \in Keys : GetResult(key) = SeenString(key)

\* C39: no task is blocked forever on the state, next_index or match_index
\* lock: every task that takes a lock releases it in the end, so that a lock
\* that is held always becomes free again
C39_EveryLockReleased ==
    \A name \in LockNames : (locks[name] # NoValue) ~> (locks[name] = NoValue)

(***************************************************************************)
(* Properties of the cluster                                               *)
(***************************************************************************)

\* C40: state machine safety: if two nodes both have committed_index >= i,
\* their logs hold the same entry at index i
C40_StateMachineSafety ==
    \A a, b \in Nodes :
        \A i \in 1..Min2(committed_index[a], committed_index[b]) :
            LogGet(LogStoreOf(a), i) = LogGet(LogStoreOf(b), i)

(***************************************************************************)
(* Properties of the clients of one storage engine                         *)
(***************************************************************************)

\* the worker of client c executes a SET that the client sent with no
\* MULTI of its own open
WritesOutsideMulti(c) ==
    /\ conn[c].pc = "locked"
    /\ conn[c].pending # <<>>
    /\ conn[c].command.name = "Set"
    /\ conn[c].transaction_stack = <<>>
    /\ Execute(c)

\* C37: a write that a client executes while it has no MULTI open goes to
\* the base tables at once, whatever the other client has open: it is not
\* held in a layer of the other client's MULTI, where a DISCARD would undo it
C37_ClientIsolation ==
    [][\A c \in Clients :
          (last'.op = "set" /\ WritesOutsideMulti(c))
          => /\ MapGet(strings', ToLowercase(conn[c].command.key))
                    = Some(conn[c].command.value)
             /\ stack' = stack]_vars

\* after every command of the client the storage engine holds as many
\* transaction layers as the connection holds open MULTI blocks
DepthAgrees ==
    conn["c1"].pc = "read_line" => Depth = Len(conn["c1"].transaction_stack)

\* the last SET of each key in a batch
LastWrites(commands) ==
    {i \in 1..Len(commands) :
        /\ commands[i].name = "Set"
        /\ \A j \in i + 1..Len(commands) :
              commands[j].name = "Set" => commands[j].key # commands[i].key}

\* the EXEC that closes the outermost MULTI leaves no layer in the engine and
\* the writes of the batch in the base table
OuterExecCommits ==
    [][(/\ conn["c1"].pc = "locked"
        /\ conn["c1"].pending = <<>>
        /\ conn["c1"].command.name = "Exec"
        /\ conn["c1"].transaction_stack = <<>>
        /\ Return("c1"))
       => /\ stack' = <<>>
          /\ \A i \in LastWrites(conn["c1"].commands) :
                MapGet(strings', ToLowercase(conn["c1"].commands[i].key))
                    = Some(conn["c1"].commands[i].value)]_vars

\* C38: for a single client the number of transaction layers of the storage
\* engine equals the number of open MULTI blocks of the connection after
\* every command, and after the EXEC of the outermost MULTI the engine has no
\* layer and the writes of the batch are in the base tables
C38_DepthAgreement ==
    /\ []DepthAgrees
    /\ OuterExecCommits

(***************************************************************************)
(* Properties of the apply loop of a node                                  *)
(***************************************************************************)

\* every call of state_machine.apply is made by the apply loop, for the
\* entry after the applied index, which is committed
AppliedByLoop ==
    [][applied' # applied =>
          /\ Len(applied') > Len(applied)
          /\ \A i \in Len(applied) + 1..Len(applied') :
                /\ applied'[i].by = "apply_loop"
                /\ applied'[i].entry.index = applied_index + i - Len(applied)
          /\ applied_index' = applied_index + Len(applied') - Len(applied)
          /\ applied_index' <= committed_index[Local]]_vars

\* the applied index never exceeds the committed index
AppliedIsCommitted == applied_index <= committed_index[Local]

\* the entries applied so far are the entries of index 1, 2, ... in order,
\* each once
AppliedInOrder == \A i \in 1..Len(applied) : applied[i].entry.index = i

\* C34: every committed entry is applied exactly once and in index order:
\* applied_index advances by one per apply and never exceeds committed_index,
\* and a command of process_command is applied by the apply loop only
C34_AppliedOnceInOrder ==
    /\ AppliedByLoop
    /\ []AppliedIsCommitted
    /\ []AppliedInOrder

(***************************************************************************)
(* Properties of the log store.                                            *)
(***************************************************************************)

\* get(i) returns the entry whose index field is i, for every index the
\* store of a node holds
GetReturnsIndex ==
    \A node_id \in StoreNodes : \A i \in 1..Len(log[node_id]) :
        LogGet(LogStoreOf(node_id), i).some.index = i

\* a snapshot that compacts leaves last_index() as it was, and the log
\* begins at the entry after the last one of the snapshot
CompactionKeepsLastIndex ==
    [][\A node_id \in StoreNodes :
          (/\ last'.op = "snapshot"
           /\ last'.key = node_id
           /\ StoreSnapshot(node_id)
           /\ log'[node_id] # log[node_id])
          => /\ LastIndex(node_id)' = LastIndex(node_id)
             /\ log'[node_id] # <<>> =>
                   log'[node_id][1].index =
                       current_snapshot'[node_id].some.metadata.last_index + 1]_vars

\* C35: the indexes of MemLogStore stay 1-based and dense across
\* compaction: get(i) returns the entry of index field i, and a snapshot
\* leaves last_index() unchanged with the log beginning after the snapshot
C35_DenseAcrossCompaction ==
    /\ []GetReturnsIndex
    /\ CompactionKeepsLastIndex

\* the snapshot that the file of a node holds
SnapshotIn(from) == DeserializeSnapshot(snapshot_file[from].some)

====
